---- MODULE Spec2Model ----
(***************************************************************************)
(* A model of jxlazy::Decoder (contrib/jxlazy/decoder.cpp), the lazy,      *)
(* random-access facade that jxltk puts over libjxl's event-driven         *)
(* decoder.                                                                *)
(*                                                                         *)
(* Sizes are counted in blocks: a file is a sequence of blocks, the input  *)
(* buffer holds blocks and the codec consumes one block per step.  The     *)
(* source's size constants are scaled to that unit (kDefaultChunkBytes is  *)
(* two blocks); the arithmetic on them is the source's.                    *)
(*                                                                         *)
(* libjxl is not part of the repository.  It is modelled as the            *)
(* environment the facade drives, by the contract of its decode API:       *)
(* the Jxl* operators below.                                               *)
(***************************************************************************)
EXTENDS Integers, Sequences, FiniteSets, TLC

\* ---------------------------------------------------------------- bounds
\* Largest frame index and largest box index a query asks for.
MaxIndex == 3
MaxBox == 5
\* Largest byte cap a caller passes to getBoxContent.
MaxCap == 3
\* Largest buffer size (in blocks) a caller passes to openStream/openFile.
MaxBufferB == 3
\* the largest step an iterator is advanced by
MaxCount == 2
\* the largest sizes, channel count and row alignment of a pixel buffer that
\* is asked for
MaxXsize == 21
MaxYsize == 3
MaxChannels == 4
MaxAlign == 10
\* the largest width and height of the pixels a Pixmap is given
MaxPixSize == 2
\* the most boxes and the most frames of a merge configuration
MaxCfgBoxes == 2
MaxCfgFrames == 2
\* the most bytes of an ICC profile that are not zero
MaxMarks == 1
\* The most extra channels asked for in one call.
MaxRequests == 1

\* ------------------------------------------------------ program constants
\* JxlDecoderStatus values (jxl/decode.h).
JXL_DEC_SUCCESS == 0
JXL_DEC_ERROR == 1
JXL_DEC_NEED_MORE_INPUT == 2
JXL_DEC_NEED_IMAGE_OUT_BUFFER == 5
JXL_DEC_JPEG_NEED_MORE_OUTPUT == 6
JXL_DEC_BOX_NEED_MORE_OUTPUT == 7
JXL_DEC_BASIC_INFO == 64
JXL_DEC_COLOR_ENCODING == 256
JXL_DEC_FRAME == 1024
JXL_DEC_FULL_IMAGE == 4096
JXL_DEC_JPEG_RECONSTRUCTION == 8192
JXL_DEC_BOX == 16384

\* decoder.cpp:88, in blocks.
kDefaultChunkBytes == 2
\* decoder.h kDefaultBufferKiB, in blocks.
kDefaultBufferKiB == 1024
\* SIZE_MAX of the (scaled) size_t: "no limit" for a box cap.
SIZE_MAX == 255
\* getBoxContent: the smallest vector first offered to the codec
\* (decoder.cpp:924) and the floor of its doubling (decoder.cpp:971).
kBoxFirstBytes == 2
kBoxGrowFloor == 1

\* ---------------------------------------------------------------- helpers
Min(a, b) == IF a < b THEN a ELSE b
Max(a, b) == IF a > b THEN a ELSE b

RECURSIVE BitAnd(_, _)
\* The C operator & on non-negative ints.
BitAnd(a, b) ==
  IF a = 0 \/ b = 0 THEN 0
  ELSE (a % 2) * (b % 2) + 2 * BitAnd(a \div 2, b \div 2)

RECURSIVE BitOr(_, _)
\* The C operator | on non-negative ints.
BitOr(a, b) ==
  IF a = 0 THEN b
  ELSE IF b = 0 THEN a
  ELSE Max(a % 2, b % 2) + 2 * BitOr(a \div 2, b \div 2)

\* mask & e, mask | e and mask & ~e for an event e (a single bit).
HasBit(mask, e) == (mask \div e) % 2 = 1
SetBit(mask, e) == IF HasBit(mask, e) THEN mask ELSE mask + e
ClearBit(mask, e) == IF HasBit(mask, e) THEN mask - e ELSE mask

SubSeqFrom(s, n) == SubSeq(s, n + 1, Len(s))
Take(s, n) == SubSeq(s, 1, Min(n, Len(s)))

\* safeMul (decoder.cpp:100): the product, or SIZE_MAX where the caller
\* substitutes it on overflow.
safeMul(a, b) == IF a * b > SIZE_MAX THEN SIZE_MAX ELSE a * b

\* ------------------------------------------------------------------ files
\* One block of a file.  t is what the block holds:
\*   "box" a box header        "dat" box payload
\*   "sig" codestream signature "bi" basic info   "col" colour encoding
\*   "fh" a frame header       "pix" a frame's pixel data
\*   "bad" bytes that are not JPEG XL
\*   "jbrd" JPEG reconstruction data
\* Of a file, xyb says that its pixels are XYB-encoded, which lets the codec
\* deliver them in another colour encoding without a CMS.
\* need is how many blocks the codec must have in its window to consume
\* the block (a header that straddles a block boundary needs 2).
Blk(t, need, type, v, at) ==
  [t |-> t, need |-> need, type |-> type, v |-> v, at |-> at]

Box(type) == Blk("box", 1, type, 0, {})
Brob(type) == Blk("box", 1, type, 0, {"brob"})
UBox(type) == Blk("box", 1, type, 0, {"unb"})
Dat(v) == Blk("dat", 1, "", v, {})
Bi == Blk("bi", 2, "", 0, {})
Col == Blk("col", 1, "", 0, {})
Fh(id, at) == Blk("fh", 1, "", id, at)
Pix(at) == Blk("pix", 1, "", 0, at)
\* The payload of a jbrd box: the data a JPEG is reconstructed from.
Jbrd == Blk("jbrd", 1, "", 0, {})

\* A container like the test suite's generated.jxl: jxll at index 2, one
\* frame, a Brotli-compressed box (2 blocks stored, 3 decompressed) and a
\* last box that runs to the end of the file.
FileGen ==
  [kind |-> "container", anim |-> FALSE, nec |-> 1, xyb |-> TRUE,
   enc |-> [orig |-> FALSE, data |-> TRUE],
   icc |-> [orig |-> <<"iccGen">>, data |-> <<>>],
   iccOk |-> [orig |-> TRUE, data |-> FALSE],
   bytes |-> << Box("JXL "), Dat(0), Box("ftyp"), Dat(0),
                Box("jxll"), Dat(10),
                Box("jxlc"), Bi, Col, Fh(0, {"last"}), Pix({"last"}),
                Brob("Lzip"), Dat(0), Dat(3),
                UBox("xtra"), Dat(0), Dat(0) >>]

\* A container with three frames; the first is a layer that coalescing
\* merges into the second.
FileLayers ==
  [kind |-> "container", anim |-> TRUE, nec |-> 1, xyb |-> FALSE,
   enc |-> [orig |-> TRUE, data |-> TRUE],
   icc |-> [orig |-> <<"iccLayers">>, data |-> <<"iccLayers">>],
   iccOk |-> [orig |-> TRUE, data |-> TRUE],
   bytes |-> << Box("JXL "), Dat(0), Box("ftyp"), Dat(0),
                Box("jxlc"), Bi, Col, Fh(0, {"merge"}), Pix({}),
                             Fh(1, {}), Pix({}),
                             Fh(2, {"last"}), Pix({"last"}) >>]

\* A bare codestream with one frame, like orient.jxl.  The codec has no
\* ICC profile to report for it.
FileBare ==
  [kind |-> "codestream", anim |-> FALSE, nec |-> 0, xyb |-> FALSE,
   enc |-> [orig |-> TRUE, data |-> TRUE],
   icc |-> [orig |-> <<>>, data |-> <<>>],
   iccOk |-> [orig |-> FALSE, data |-> FALSE],
   bytes |-> << Blk("sig", 1, "", 0, {}), Bi, Col,
                Fh(0, {"last"}), Pix({"last"}) >>]

\* A container whose jxll box (level 5) comes after the codestream, like
\* frame0.jxl.
FileLevel5 ==
  [kind |-> "container", anim |-> FALSE, nec |-> 0, xyb |-> FALSE,
   enc |-> [orig |-> TRUE, data |-> TRUE],
   icc |-> [orig |-> <<"iccLevel5">>, data |-> <<"iccLevel5">>],
   iccOk |-> [orig |-> TRUE, data |-> TRUE],
   bytes |-> << Box("JXL "), Dat(0), Box("ftyp"), Dat(0),
                Box("jxlc"), Bi, Col, Fh(0, {"last"}), Pix({"last"}),
                Box("jxll"), Dat(5) >>]

\* Bytes that are not a JPEG XL file.
FileJunk ==
  [kind |-> "none", anim |-> FALSE, nec |-> 0, xyb |-> FALSE,
   enc |-> [orig |-> FALSE, data |-> FALSE],
   icc |-> [orig |-> <<>>, data |-> <<>>],
   iccOk |-> [orig |-> FALSE, data |-> FALSE],
   bytes |-> << Blk("bad", 1, "", 0, {}), Blk("bad", 1, "", 0, {}) >>]

\* A container whose ftyp box header straddles a block boundary: the codec
\* takes it only with two blocks in its window.
FileWide ==
  [kind |-> "container", anim |-> FALSE, nec |-> 0, xyb |-> FALSE,
   enc |-> [orig |-> TRUE, data |-> TRUE],
   icc |-> [orig |-> <<"iccWide">>, data |-> <<"iccWide">>],
   iccOk |-> [orig |-> TRUE, data |-> TRUE],
   bytes |-> << Box("JXL "), Dat(0), Blk("box", 2, "ftyp", 0, {}), Dat(0),
                Box("jxlc"), Bi, Col, Fh(0, {"last"}), Pix({"last"}) >>]

\* A container that turns into garbage after its first frame.
FileCorrupt ==
  [kind |-> "container", anim |-> TRUE, nec |-> 0, xyb |-> FALSE,
   enc |-> [orig |-> TRUE, data |-> TRUE],
   icc |-> [orig |-> <<"iccCorrupt">>, data |-> <<"iccCorrupt">>],
   iccOk |-> [orig |-> TRUE, data |-> TRUE],
   bytes |-> << Box("JXL "), Dat(0), Box("ftyp"), Dat(0),
                Box("jxlc"), Bi, Col, Fh(0, {}), Pix({}),
                Blk("bad", 1, "", 0, {}) >>]

\* A container that was made from a JPEG, like jpeg.jxl: the jbrd box
\* comes before the codestream.
FileJpeg ==
  [kind |-> "container", anim |-> FALSE, nec |-> 0, xyb |-> TRUE,
   enc |-> [orig |-> TRUE, data |-> TRUE],
   icc |-> [orig |-> <<"iccJpeg">>, data |-> <<"iccJpeg">>],
   iccOk |-> [orig |-> TRUE, data |-> TRUE],
   bytes |-> << Box("JXL "), Dat(0), Box("ftyp"), Dat(0),
                Box("jbrd"), Jbrd,
                Box("jxlc"), Bi, Col, Fh(0, {"last"}), Pix({"last"}) >>]

\* No source at all (a decoder that was never opened).
FileNone ==
  [kind |-> "none", anim |-> FALSE, nec |-> 0, xyb |-> FALSE,
   enc |-> [orig |-> FALSE, data |-> FALSE],
   icc |-> [orig |-> <<>>, data |-> <<>>],
   iccOk |-> [orig |-> FALSE, data |-> FALSE],
   bytes |-> << >>]

Files == [gen |-> FileGen, layers |-> FileLayers, bare |-> FileBare,
          level5 |-> FileLevel5, junk |-> FileJunk, none |-> FileNone,
          wide |-> FileWide, corrupt |-> FileCorrupt, jpeg |-> FileJpeg]
FileIds == DOMAIN Files

FileLen(f) == Len(f.bytes)

\* ---- what the file truly contains (the reference the claims compare to)
BoxStarts(f) == { p \in 1..FileLen(f) : f.bytes[p].t = "box" }
RECURSIVE SortedSeq(_)
SortedSeq(S) ==
  IF S = {} THEN <<>>
  ELSE LET m == CHOOSE x \in S : \A y \in S : x <= y
       IN <<m>> \o SortedSeq(S \ {m})
\* 1-based positions of the box headers, in file order.
BoxPos(f) == SortedSeq(BoxStarts(f))
TrueBoxCount(f) == Len(BoxPos(f))
\* End (exclusive, 1-based) of the content of the box whose header is at p.
BoxEnd(f, p) ==
  LET later == { q \in BoxStarts(f) : q > p }
  IN IF later = {} THEN FileLen(f) + 1
     ELSE CHOOSE q \in later : \A r \in later : q <= r
\* The stored payload length of the box whose header is at p.
BoxRawLen(f, p) == BoxEnd(f, p) - p - 1

\* What the codec writes for the payload block at 1-based position p.
\* Stored bytes are identified by their position; decompressed bytes by
\* 100 * k + p.
BlockOut(f, p, decompress) ==
  IF decompress THEN [k \in 1..f.bytes[p].v |-> 100 * k + p]
  ELSE << p >>
RECURSIVE ConcatOut(_, _, _, _)
ConcatOut(f, p, e, decompress) ==
  IF p >= e THEN <<>>
  ELSE BlockOut(f, p, decompress) \o ConcatOut(f, p + 1, e, decompress)
\* The full content box_content delivers for the box whose header is at p.
TrueBoxContent(f, p, decompress) ==
  ConcatOut(f, p + 1, BoxEnd(f, p),
            decompress /\ "brob" \in f.bytes[p].at)

\* The frames the codec reports: every frame when not coalescing, and only
\* the frames that end a composition (no "merge") when coalescing.
FramePos(f, coalescing) ==
  SortedSeq({ p \in 1..FileLen(f) :
                /\ f.bytes[p].t = "fh"
                /\ (coalescing => "merge" \notin f.bytes[p].at) })
TrueFrameCount(f, coalescing) == Len(FramePos(f, coalescing))

\* ------------------------------------------------- input stream (istream)
\* pos counts blocks from the start of the file; start is where the stream
\* stood when it was handed over.
\* pre blocks of other data precede the file in the stream.
NoStream == [has |-> FALSE, seekable |-> FALSE, pre |-> 0, pos |-> 0,
             eof |-> FALSE, fail |-> FALSE]
NewStream(seekable, pre) ==
  [has |-> TRUE, seekable |-> seekable, pre |-> pre, pos |-> pre,
   eof |-> FALSE, fail |-> FALSE]
\* istream::tellg(): -1 on a stream that cannot seek.
StreamTell(s) == IF s.seekable THEN s.pos ELSE -1
StreamGood(s) == ~s.eof /\ ~s.fail
\* istream::read(n): the blocks delivered (file positions, 1-based; -1 for
\* a block that precedes the file).
StreamGot(s, f, n) ==
  IF ~StreamGood(s) THEN <<>>
  ELSE [k \in 1..Min(n, s.pre + FileLen(f) - s.pos) |->
          IF s.pos + k > s.pre THEN s.pos + k - s.pre ELSE -1]
StreamRead(s, f, n) ==
  IF ~StreamGood(s) THEN [s EXCEPT !.fail = TRUE]
  ELSE LET got == Min(n, s.pre + FileLen(f) - s.pos)
       IN [s EXCEPT !.pos = @ + got,
                    !.eof = got < n, !.fail = got < n]
\* istream::peek(): sets eofbit when nothing is left.
StreamPeek(s, f) ==
  IF ~StreamGood(s) THEN [s EXCEPT !.fail = TRUE]
  ELSE [s EXCEPT !.eof = s.pos >= s.pre + FileLen(f)]
StreamClear(s) == [s EXCEPT !.eof = FALSE, !.fail = FALSE]
\* istream::seekg(to): fails on a stream that cannot seek.
StreamSeek(s, to) ==
  IF s.fail THEN s
  ELSE IF s.seekable /\ to >= 0 THEN [s EXCEPT !.pos = to, !.eof = FALSE]
  ELSE [s EXCEPT !.fail = TRUE]

\* ------------------------------------------------------- libjxl's decoder
\* The state of a JxlDecoder, as far as the decode API shows it.
\*   pos     blocks consumed since the start of the file
\*   win     the input window (file positions); hasIn: a window is set
\*   subs    subscribed events;  skip: frames still to skip
\*   mode    "none", or the current frame is "emit"ted, "skip"ped or
\*           "internal" (a layer merged into a later frame)
\*   box     position of the current box header (0: none)
\*   out*    the box output buffer;  pend: decompressed bytes not yet written
\*   bad     the window held something else than the file's next bytes
\*   outEnc  the colour encoding asked for the output ("": none)
JxlDecoderReset ==
  [pos |-> 0, win |-> <<>>, hasIn |-> FALSE, closed |-> FALSE,
   started |-> FALSE, subs |-> 0, skip |-> 0, coalescing |-> TRUE,
   mode |-> "none", frame |-> 0, gotBI |-> FALSE, gotCol |-> FALSE,
   imgOut |-> FALSE, ecOut |-> {}, pixels |-> -1, done |-> FALSE,
   box |-> 0, outSet |-> FALSE, outCur |-> FALSE, outCap |-> 0,
   outData |-> <<>>, pend |-> <<>>, decompress |-> FALSE,
   st |-> JXL_DEC_ERROR, bad |-> FALSE, outEnc |-> ""]

\* JxlDecoderRewind: back to the start, input released, settings kept.
JxlDecoderRewind(c) ==
  [JxlDecoderReset EXCEPT !.coalescing = c.coalescing,
                          !.decompress = c.decompress,
                          !.bad = c.bad]
JxlDecoderSetCoalescing(c, on) == [c EXCEPT !.coalescing = on]
\* JxlDecoderSubscribeEvents: refused once decoding has started.
JxlSubscribeOk(c) == ~c.started
JxlDecoderSubscribeEvents(c, ev) == [c EXCEPT !.subs = ev]
\* JxlDecoderSetInput: refused while a window is still set.
JxlSetInputOk(c) == ~c.hasIn
JxlDecoderSetInput(c, w) == [c EXCEPT !.win = w, !.hasIn = TRUE]
\* JxlDecoderReleaseInput returns the number of unconsumed blocks.
JxlUnprocessed(c) == Len(c.win)
JxlDecoderReleaseInput(c) == [c EXCEPT !.win = <<>>, !.hasIn = FALSE]
JxlDecoderCloseInput(c) == [c EXCEPT !.closed = TRUE]
\* A codec that takes no notice of the frames it is told to skip.
JxlDecoderSkipFramesIgnored(c, n) == c
JxlDecoderSkipFrames(c, n) == [c EXCEPT !.skip = @ + n]
JxlSkipCurrentOk(c) == c.mode = "emit"
JxlDecoderSkipCurrentFrame(c) == [c EXCEPT !.mode = "skip"]
JxlSetImageOutOk(c) == c.gotBI
JxlDecoderSetImageOutBuffer(c) == [c EXCEPT !.imgOut = TRUE]
\* JxlDecoderSetExtraChannelBuffer: ecOut are the channels with a buffer.
JxlSetExtraChannelBufferOk(c, f, index) == c.gotBI /\ index < f.nec
JxlDecoderSetExtraChannelBuffer(c, index) ==
  [c EXCEPT !.ecOut = @ \cup {index}]
\* JxlDecoderSetDecompressBoxes: a codec built without Brotli cannot be told
\* to decompress.
JxlSetDecompressBoxesOk(brotli, on) == brotli \/ ~on
JxlDecoderSetDecompressBoxes(c, on) == [c EXCEPT !.decompress = on]
JxlSetBoxBufferOk(c) == ~c.outSet
JxlDecoderSetBoxBuffer(c, cap) ==
  [c EXCEPT !.outSet = TRUE, !.outCur = TRUE, !.outCap = cap,
            !.outData = <<>>]
\* JxlDecoderReleaseBoxBuffer returns the space not written.
JxlNotWritten(c) == IF c.outSet THEN c.outCap ELSE 0
JxlDecoderReleaseBoxBuffer(c) ==
  [c EXCEPT !.outSet = FALSE, !.outCur = FALSE, !.outCap = 0,
            !.outData = <<>>]

Subbed(c, e) == HasBit(c.subs, e)
Ret(c, st) == [c EXCEPT !.st = st]

\* The codec takes the block at the head of its window.
Consume(c) == [c EXCEPT !.pos = @ + 1, !.win = Tail(@)]

\* Box output for the payload block p: what fits goes to the buffer, the
\* rest of a decompressed block stays pending.
WithBoxOut(c, f, p) ==
  IF c.box > 0 /\ Subbed(c, JXL_DEC_BOX) /\ c.outSet /\ c.outCur
  THEN LET o == BlockOut(f, p, c.decompress /\ "brob" \in f.bytes[c.box].at)
           n == Min(c.outCap, Len(o))
       IN [c EXCEPT !.outData = @ \o Take(o, n), !.outCap = @ - n,
                    !.pend = SubSeqFrom(o, n)]
  ELSE c

\* The effect of consuming block b at position p, and the event it raises
\* (JXL_DEC_SUCCESS: none).
AfterBlock(c, f, p) ==
  LET b == f.bytes[p] IN
  CASE b.t = "box" ->
         Ret([c EXCEPT !.box = p, !.outCur = FALSE, !.pend = <<>>],
             IF Subbed(c, JXL_DEC_BOX) THEN JXL_DEC_BOX ELSE JXL_DEC_SUCCESS)
    [] b.t = "bi" ->
         Ret([c EXCEPT !.gotBI = TRUE],
             IF Subbed(c, JXL_DEC_BASIC_INFO) THEN JXL_DEC_BASIC_INFO
             ELSE JXL_DEC_SUCCESS)
    [] b.t = "col" ->
         Ret([c EXCEPT !.gotCol = TRUE],
             IF Subbed(c, JXL_DEC_COLOR_ENCODING) THEN JXL_DEC_COLOR_ENCODING
             ELSE JXL_DEC_SUCCESS)
    [] b.t = "fh" ->
         IF c.coalescing /\ "merge" \in b.at
         THEN Ret([c EXCEPT !.mode = "internal"], JXL_DEC_SUCCESS)
         ELSE IF c.skip > 0
         THEN Ret([c EXCEPT !.mode = "skip", !.skip = @ - 1], JXL_DEC_SUCCESS)
         ELSE Ret([c EXCEPT !.mode = "emit", !.frame = p],
                  IF Subbed(c, JXL_DEC_FRAME) THEN JXL_DEC_FRAME
                  ELSE JXL_DEC_SUCCESS)
    [] b.t = "pix" ->
         LET full == c.mode = "emit" /\ Subbed(c, JXL_DEC_FULL_IMAGE)
                       /\ c.imgOut
         IN Ret([c EXCEPT !.mode = "none", !.imgOut = FALSE, !.ecOut = {},
                          !.done = "last" \in b.at,
                          !.pixels = IF full THEN c.frame ELSE @],
                IF full THEN JXL_DEC_FULL_IMAGE ELSE JXL_DEC_SUCCESS)
    [] b.t = "jbrd" ->
         Ret(c, IF Subbed(c, JXL_DEC_JPEG_RECONSTRUCTION)
                THEN JXL_DEC_JPEG_RECONSTRUCTION ELSE JXL_DEC_SUCCESS)
    [] OTHER -> Ret(c, JXL_DEC_SUCCESS)

RECURSIVE JxlDecoderProcessInput(_, _)
\* JxlDecoderProcessInput: run until the next subscribed event, a request
\* for input or output, the end, or an error.
JxlDecoderProcessInput(c0, f) ==
  LET c == [c0 EXCEPT !.started = TRUE]
      p == c.pos + 1
  IN
  IF c.pend # <<>> THEN
    IF c.outSet /\ c.outCur
    THEN LET n == Min(c.outCap, Len(c.pend))
             c1 == [c EXCEPT !.outData = @ \o Take(c.pend, n),
                             !.outCap = @ - n,
                             !.pend = SubSeqFrom(c.pend, n)]
         IN IF c1.pend # <<>> THEN Ret(c1, JXL_DEC_BOX_NEED_MORE_OUTPUT)
            ELSE JxlDecoderProcessInput(c1, f)
    ELSE JxlDecoderProcessInput([c EXCEPT !.pend = <<>>], f)
  ELSE IF c.done /\ ~Subbed(c, JXL_DEC_BOX) THEN Ret(c, JXL_DEC_SUCCESS)
  ELSE IF c.win = <<>> THEN
    IF ~c.closed THEN Ret(c, JXL_DEC_NEED_MORE_INPUT)
    ELSE Ret(c, IF c.done THEN JXL_DEC_SUCCESS ELSE JXL_DEC_ERROR)
  ELSE IF Head(c.win) # p \/ p > FileLen(f)
    THEN Ret([c EXCEPT !.bad = TRUE], JXL_DEC_ERROR)
  ELSE IF f.bytes[p].t = "bad" THEN Ret(c, JXL_DEC_ERROR)
  ELSE IF Len(c.win) < f.bytes[p].need THEN
    Ret(c, IF c.closed THEN JXL_DEC_ERROR ELSE JXL_DEC_NEED_MORE_INPUT)
  ELSE IF f.bytes[p].t = "pix" /\ c.mode = "emit"
          /\ Subbed(c, JXL_DEC_FULL_IMAGE) /\ ~c.imgOut
    THEN Ret(c, JXL_DEC_NEED_IMAGE_OUT_BUFFER)
  ELSE IF f.bytes[p].t # "box" /\ c.box > 0 /\ Subbed(c, JXL_DEC_BOX)
          /\ c.outSet /\ c.outCur /\ c.outCap = 0
          /\ BlockOut(f, p, c.decompress /\ "brob" \in f.bytes[c.box].at)
               # <<>>
    THEN Ret(c, JXL_DEC_BOX_NEED_MORE_OUTPUT)
  ELSE
    LET c1 == IF f.bytes[p].t = "box" THEN c ELSE WithBoxOut(c, f, p)
        c2 == AfterBlock(Consume(c1), f, p)
    IN IF c2.pend # <<>> THEN Ret(c2, JXL_DEC_BOX_NEED_MORE_OUTPUT)
       ELSE IF c2.st # JXL_DEC_SUCCESS THEN c2
       ELSE JxlDecoderProcessInput(c2, f)

\* JxlDecoderSetOutputColorProfile: refused before the colour encoding is
\* known, and for an ICC profile, as no CMS is set.  An encoding asked for
\* pixels that are not XYB is accepted and ignored.
JxlSetOutputProfileOk(c, iccData) == c.gotCol /\ ~iccData
JxlDecoderSetOutputColorProfile(c, f, colorEncoding) ==
  IF f.xyb /\ colorEncoding # "" THEN [c EXCEPT !.outEnc = colorEncoding]
  ELSE c
\* JxlDecoderGetColorAsEncodedProfile for the data target.
JxlDataEncOk(c, f) == f.enc.data
JxlDataEnc(c, src) == IF c.outEnc # "" THEN <<src, c.outEnc>>
                      ELSE <<src, "data">>

\* JxlSignatureCheck on the first blocks of the input.
JxlSignatureCheck(f, w) ==
  IF w = <<>> THEN "not_enough"
  ELSE IF w[1] # 1 THEN "invalid"
  ELSE IF f.bytes[1].t = "sig" THEN "codestream"
  ELSE IF f.bytes[1].t = "box" THEN "container"
  ELSE "invalid"

\* The getters, valid while the codec stands at the matching event.
JxlDecoderGetBasicInfo(c, f) ==
  [have_container |-> f.kind = "container",
   have_animation |-> f.anim, num_extra_channels |-> f.nec]
JxlDecoderGetFrameHeader(c, f) ==
  [id |-> f.bytes[c.frame].v, is_last |-> "last" \in f.bytes[c.frame].at]
JxlDecoderGetBoxType(c, f, decompressed) ==
  IF "brob" \in f.bytes[c.box].at /\ ~decompressed THEN "brob"
  ELSE f.bytes[c.box].type
JxlDecoderGetBoxSizeContents(c, f) ==
  IF "unb" \in f.bytes[c.box].at THEN 0 ELSE BoxRawLen(f, c.box)
JxlDecoderGetBoxSizeRaw(c, f) ==
  IF "unb" \in f.bytes[c.box].at THEN 0 ELSE BoxRawLen(f, c.box) + 1

\* ------------------------------------------------------- jxlazy::Decoder
\* The Decoder object.  Fields carry the member names of decoder.h; src is
\* the file behind the input, mem the caller's memory (openMemory), err the
\* exception the running call has thrown, ret what it returned, and ub the
\* outcome the build gives to undefined behaviour in this call.  What the
\* running call has done so far is recorded in
\*   rewinds       how often it entered rewind_
\*   seekFailed    a seekg of rewind_ left the stream not good
\*   codecErrors   how often the codec returned JXL_DEC_ERROR
\*   errRewinds    how often rewind_ was entered to recover from that
\*   zeroProgress  the codec asked for input having consumed nothing of a
\*                 non-empty window: "no", or "thrown" / "refilled" for
\*                 what the facade did about it
\*   refill        what the last refill that grew the buffer found and left
\*   rewound       what each rewind_ found, installed and left, in order
\*   returned      the statuses processInput_ returned, with the untilStatus
\*                 it was called with
\* and brotli says whether the codec library was built with Brotli.
NoRet == [k |-> "none"]
Decoder0 ==
  [src |-> "none", stream |-> NoStream, inStreamStart_ |-> 0,
   inBufferPrivate_ |-> <<>>, inBufferPtr_ |-> "null", mem |-> <<>>,
   inBufferLength_ |-> 0, inBufferCap_ |-> 0, inBufferMax_ |-> 0,
   inBufferOffset_ |-> 0, inBufferDecOffset_ |-> 0,
   dec_ |-> JxlDecoderReset, stateFlags_ |-> {},
   basicInfo_ |-> [have_container |-> FALSE, have_animation |-> FALSE,
                   num_extra_channels |-> 0],
   origIcc_ |-> <<>>, origColorEnc_ |-> "", dataIcc_ |-> <<>>,
   dataColorEnc_ |-> "",
   eventsSubbed_ |-> 0, status_ |-> JXL_DEC_ERROR,
   boxes_ |-> <<>>, nextBoxIndex_ |-> 0,
   frames_ |-> <<>>, nextFrameIndex_ |-> 0,
   jpegCount_ |-> 0, nextJpegIndex_ |-> 0, extra_ |-> <<>>,
   err |-> "none", ret |-> NoRet, ub |-> "crash",
   rewinds |-> 0, seekFailed |-> FALSE, codecErrors |-> 0,
   errRewinds |-> 0, zeroProgress |-> "no", refill |-> <<>>,
   rewound |-> <<>>, returned |-> {},
   brotli |-> TRUE]

SrcFile(d) == Files[d.src]
Throw(d, e) == [d EXCEPT !.err = e]
Ok(d) == d.err = "none"
Flag(d, fl) == fl \in d.stateFlags_
SetFlag(d, fl) == [d EXCEPT !.stateFlags_ = @ \cup {fl}]
\* The statement F runs unless an exception is in flight.
Then(d, F(_)) == IF Ok(d) THEN F(d) ELSE d

\* The memory inBufferPtr_ points at.
Data(d) ==
  CASE d.inBufferPtr_ = "private" -> d.inBufferPrivate_
    [] d.inBufferPtr_ = "user" -> d.mem
    [] OTHER -> <<>>
\* The n blocks at inBufferPtr_ + from (-1 where that is not input data).
Window(d, from, n) ==
  [k \in 1..n |-> IF from + k <= Len(Data(d)) THEN Data(d)[from + k] ELSE -1]
\* vector::resize(n): keep the first n blocks, pad with blocks that are
\* not input data.
Resize(v, n) == [k \in 1..n |-> IF k <= Len(v) THEN v[k] ELSE -1]

\* Decoder::close_ (decoder.cpp:301)
close_(d, reopening) ==
  LET Forgotten(d1) ==
        IF reopening THEN d1
        ELSE [d1 EXCEPT !.stream = NoStream, !.origIcc_ = <<>>,
                        !.dataIcc_ = <<>>]
  IN Forgotten([d EXCEPT
        !.stateFlags_ = {}, !.inBufferLength_ = 0, !.inBufferOffset_ = 0,
        !.inBufferDecOffset_ = 0, !.inBufferPrivate_ = <<>>,
        !.inBufferPtr_ = "null", !.mem = <<>>,
        !.dec_ = JxlDecoderReset,
        !.eventsSubbed_ = 0, !.status_ = JXL_DEC_ERROR,
        !.boxes_ = <<>>, !.nextBoxIndex_ = 0,
        !.frames_ = <<>>, !.nextFrameIndex_ = 0,
        !.jpegCount_ = 0, !.nextJpegIndex_ = 0, !.extra_ = <<>>])

\* What the decoder has cached of the file, and the flags that say so.
Cached(d) ==
  [frames_ |-> d.frames_, boxes_ |-> d.boxes_, basicInfo_ |-> d.basicInfo_,
   extra_ |-> d.extra_, origIcc_ |-> d.origIcc_, dataIcc_ |-> d.dataIcc_,
   origColorEnc_ |-> d.origColorEnc_, dataColorEnc_ |-> d.dataColorEnc_,
   jpegCount_ |-> d.jpegCount_,
   flags |-> d.stateFlags_ \cap {"SeenAllFrames", "SeenAllBoxes",
                                 "SeenAllJpeg", "GotBasicInfo", "GotColor",
                                 "GotOrigColorEnc", "GotDataColorEnc"}]

\* A rewind that leaves the cursors where they are.
ResetCursorsNot(d) == d
\* A rewind that forgets the frames with the cursors.
ResetCursorsAndFrames(d) ==
  [d EXCEPT !.nextFrameIndex_ = 0, !.nextBoxIndex_ = 0,
            !.nextJpegIndex_ = 0, !.frames_ = <<>>]
\* rewind_, the cursors go back to the start (decoder.cpp:545)
ResetCursors(d) ==
  [d EXCEPT !.nextFrameIndex_ = 0, !.nextBoxIndex_ = 0,
            !.nextJpegIndex_ = 0]

\* Decoder::rewind_ (decoder.cpp:534)
rewind_(d, resubscribeTo) ==
  LET \* what this rewind found in d and leaves in r
      Noted(r) ==
        [r EXCEPT !.rewound =
           Append(@, [events |-> resubscribeTo, pre |-> Cached(d),
                      post |-> Cached(r),
                      next |-> <<r.nextFrameIndex_, r.nextBoxIndex_,
                                 r.nextJpegIndex_>>])]
      \* the buffer still starts at the start of the file (548)
      Replay(d1) ==
        [d1 EXCEPT
           !.inBufferDecOffset_ = 0,
           !.dec_ = IF Flag(d1, "WholeFileBuffered")
                    THEN JxlDecoderCloseInput(JxlDecoderSetInput(@,
                           Window(d1, 0, d1.inBufferLength_)))
                    ELSE JxlDecoderSetInput(@,
                           Window(d1, 0, d1.inBufferLength_))]
      \* the buffer is emptied (554)
      Empty(d1) ==
        [d1 EXCEPT !.inBufferLength_ = 0, !.inBufferOffset_ = 0,
                   !.inBufferDecOffset_ = 0]
      \* the stream goes back to where the file starts (557); without a
      \* stream this dereferences a null inStreamPtr_
      Seek(d2) ==
        IF ~d2.stream.has
        THEN IF d2.ub = "crash" THEN Throw(d2, "Crash") ELSE d2
        ELSE [d2 EXCEPT !.stream =
                StreamSeek(StreamClear(@), d2.inStreamStart_)]
      Sought(d3) ==
        IF d3.stream.has /\ ~StreamGood(d3.stream)
        THEN Throw([d3 EXCEPT !.seekFailed = TRUE], "ReadError") ELSE d3
      Reset(d0) ==
        [ResetCursors(d0) EXCEPT
           !.dec_ = JxlDecoderSubscribeEvents(JxlDecoderRewind(@),
                                              resubscribeTo),
           !.eventsSubbed_ = resubscribeTo,
           !.status_ = JXL_DEC_ERROR, !.rewinds = @ + 1]
  IN Noted(IF d.inBufferOffset_ = 0 THEN Replay(Reset(d))
           ELSE Then(Then(Empty(Reset(d)), Seek), Sought))

\* Where processInput_ is asked to stop: None, All or Specific(index), for
\* frames, boxes and JPEG reconstructions.
StopNone == [frame |-> "None", f |-> 0, box |-> "None", b |-> 0,
             jpeg |-> "None", j |-> 0]
StopFrame(i) == [StopNone EXCEPT !.frame = "Specific", !.f = i]
StopAllFrames == [StopNone EXCEPT !.frame = "All"]
StopBox(i) == [StopNone EXCEPT !.box = "Specific", !.b = i]
StopAllBoxes == [StopNone EXCEPT !.box = "All"]

\* A promotion that takes no notice of the subscriptions.
AfterLoopUnsubscribed(d) ==
  IF d.status_ # JXL_DEC_SUCCESS THEN d
  ELSE [d EXCEPT !.stateFlags_ =
          @ \cup {"SeenAllFrames", "SeenAllBoxes", "SeenAllJpeg"}]

\* processInput_, the promotion after the loop (decoder.cpp:1448)
AfterLoop(d) ==
  IF d.status_ # JXL_DEC_SUCCESS THEN d
  ELSE [d EXCEPT !.stateFlags_ = @
          \cup (IF HasBit(d.eventsSubbed_, JXL_DEC_FRAME)
                THEN {"SeenAllFrames"} ELSE {})
          \cup (IF HasBit(d.eventsSubbed_, JXL_DEC_BOX)
                THEN {"SeenAllBoxes"} ELSE {})
          \cup (IF HasBit(d.eventsSubbed_, JXL_DEC_JPEG_RECONSTRUCTION)
                THEN {"SeenAllJpeg"} ELSE {})]

\* processInput_, JXL_DEC_BASIC_INFO (decoder.cpp:1245)
OnBasicInfo(d) ==
  [d EXCEPT !.eventsSubbed_ = ClearBit(@, JXL_DEC_BASIC_INFO),
            !.basicInfo_ = JxlDecoderGetBasicInfo(d.dec_, SrcFile(d)),
            !.stateFlags_ = @ \cup {"GotBasicInfo"}]

\* The capacity that a buffer which can grow is given (decoder.cpp:1264).
newCapMax(inBufferCap_, inBufferMax_) == inBufferMax_
newCap(inBufferCap_, inBufferMax_) ==
  IF inBufferCap_ * 2 > SIZE_MAX \/ inBufferCap_ * 2 > inBufferMax_
  THEN inBufferMax_
  ELSE inBufferCap_ * 2
\* What a refill finds and what it leaves, for one that grows the buffer
\* of d and leaves d5.
Refill(d, d5) ==
  IF Ok(d5) /\ d.inBufferCap_ < d.inBufferMax_
  THEN [d5 EXCEPT !.refill =
          <<[cap |-> d.inBufferCap_, max |-> d.inBufferMax_,
             len |-> d.inBufferLength_,
             unprocessed |-> JxlUnprocessed(d.dec_),
             data |-> Take(d.inBufferPrivate_, d.inBufferLength_),
             newCap |-> d5.inBufferCap_, newLen |-> d5.inBufferLength_,
             newDecOffset |-> d5.inBufferDecOffset_,
             newOffset |-> d5.inBufferOffset_,
             newData |-> Take(d5.inBufferPrivate_, d5.inBufferLength_),
             input |-> d5.dec_.win]>>]
  ELSE d5

\* processInput_, JXL_DEC_NEED_MORE_INPUT: refill the input buffer
\* (decoder.cpp:1253)
OnNeedMoreInput(d) ==
  LET unprocessedCount == JxlUnprocessed(d.dec_)
      \* the window the codec was handed is the buffer from
      \* inBufferDecOffset_ on (215, 553, 1294)
      handed == d.inBufferLength_ - d.inBufferDecOffset_
      Noted(d0, what) ==
        IF unprocessedCount = handed /\ handed > 0
             /\ d0.zeroProgress # "refilled"
        THEN [d0 EXCEPT !.zeroProgress = what] ELSE d0
      \* nothing was consumed from a non-empty buffer (1256)
      Release(d0) ==
        IF unprocessedCount = d0.inBufferLength_ /\ d0.inBufferLength_ > 0
        THEN Throw(Noted([d0 EXCEPT !.dec_ = JxlDecoderReleaseInput(@)],
                         "thrown"),
                   "ReadError")
        ELSE Noted([d0 EXCEPT !.dec_ = JxlDecoderReleaseInput(@)],
                   "refilled")
      \* the buffer grows, keeping everything (1263)
      Grow(d1, cap) ==
        [d1 EXCEPT
           !.inBufferPrivate_ = Resize(Resize(@, d1.inBufferLength_), cap),
           !.inBufferPtr_ = "private",
           !.inBufferCap_ = cap,
           !.inBufferDecOffset_ = d1.inBufferLength_ - unprocessedCount]
      \* or, being full, moves the unprocessed tail to its start (1274)
      MakeRoom(d1) ==
        IF d1.inBufferCap_ < d1.inBufferMax_
        THEN Grow(d1, newCap(d1.inBufferCap_, d1.inBufferMax_))
        ELSE [d1 EXCEPT
                !.inBufferPrivate_ =
                   IF unprocessedCount > 0
                   THEN [k \in 1..Len(@) |->
                           IF k <= unprocessedCount
                           THEN @[d1.inBufferLength_ - unprocessedCount + k]
                           ELSE @[k]]
                   ELSE @,
                !.inBufferOffset_ =
                   @ + d1.inBufferLength_ - unprocessedCount,
                !.inBufferLength_ = unprocessedCount,
                !.inBufferDecOffset_ = 0]
      \* the bytes read go behind the ones kept (1285)
      Fill(d2, got, s2) ==
        [d2 EXCEPT
           !.inBufferPrivate_ =
              [k \in 1..Len(@) |->
                 IF k > d2.inBufferLength_
                    /\ k <= d2.inBufferLength_ + Len(got)
                 THEN got[k - d2.inBufferLength_] ELSE @[k]],
           !.inBufferLength_ = @ + Len(got),
           !.stream = s2]
      \* inStreamPtr_ is null without a stream: dereferencing it is undefined
      \* behaviour, which either ends the process or reads nothing.
      Read(d2) ==
        IF ~d2.stream.has
        THEN IF d2.ub = "crash" THEN Throw(d2, "Crash")
             ELSE Fill(d2, << >>, [d2.stream EXCEPT !.eof = TRUE])
        ELSE Fill(d2,
                  StreamGot(d2.stream, SrcFile(d2),
                            d2.inBufferCap_ - d2.inBufferLength_),
                  StreamPeek(StreamRead(d2.stream, SrcFile(d2),
                               d2.inBufferCap_ - d2.inBufferLength_),
                             SrcFile(d2)))
      \* the buffer from inBufferDecOffset_ on is the codec's input (1294)
      SetInput(d3) ==
        [d3 EXCEPT !.dec_ = JxlDecoderSetInput(@,
           Window([d3 EXCEPT !.inBufferPtr_ = "private"],
                  d3.inBufferDecOffset_,
                  d3.inBufferLength_ - d3.inBufferDecOffset_))]
      \* at the end of the stream the codec's input is closed (1300)
      AtEof(d4) ==
        IF d4.stream.eof
        THEN [d4 EXCEPT
                !.stateFlags_ = IF d4.inBufferOffset_ = 0
                                THEN @ \cup {"WholeFileBuffered"} ELSE @,
                !.dec_ = JxlDecoderCloseInput(@)]
        ELSE d4
  IN Refill(d, Then(Then(Then(Then(Release(d), MakeRoom), Read), SetInput),
                    AtEof))

\* A frame event that caches the header of every frame it meets, seen
\* before or not.
OnFrameCachesAgain(d) ==
  [d EXCEPT !.frames_ =
              Append(@, [header |-> JxlDecoderGetFrameHeader(d.dec_,
                                                             SrcFile(d)),
                         ecBlendInfo |-> 0]),
            !.nextFrameIndex_ = @ + 1]

\* processInput_, JXL_DEC_FRAME (decoder.cpp:1310): cache the header of a
\* frame not seen before, count the frame.
OnFrame(d) ==
  LET hdr == JxlDecoderGetFrameHeader(d.dec_, SrcFile(d))
      frameInfo == [header |-> hdr,
                    ecBlendInfo |-> IF ~Flag(d, "IsCoalescing")
                                    THEN d.basicInfo_.num_extra_channels
                                    ELSE 0]
      d1 == IF Len(d.frames_) <= d.nextFrameIndex_
            THEN [d EXCEPT
                    !.frames_ = Append(@, frameInfo),
                    !.stateFlags_ =
                       IF Flag(d, "IsCoalescing") /\ hdr.is_last
                       THEN @ \cup {"SeenAllFrames"} ELSE @]
            ELSE d
  IN [d1 EXCEPT !.nextFrameIndex_ = @ + 1]

\* processInput_, JXL_DEC_BOX (decoder.cpp:1353)
OnBox(d) ==
  LET f == SrcFile(d)
      raw == JxlDecoderGetBoxType(d.dec_, f, FALSE)
      compressed == raw = "brob"
      size == JxlDecoderGetBoxSizeContents(d.dec_, f)
      boxInfo == [type |-> IF compressed
                           THEN JxlDecoderGetBoxType(d.dec_, f, TRUE)
                           ELSE raw,
                  compressed |-> compressed,
                  size |-> size,
                  unbounded |-> size = 0
                                  /\ JxlDecoderGetBoxSizeRaw(d.dec_, f) = 0]
      d1 == IF Len(d.boxes_) <= d.nextBoxIndex_
            THEN [d EXCEPT !.boxes_ = Append(@, boxInfo)]
            ELSE d
  IN [d1 EXCEPT !.nextBoxIndex_ = @ + 1]


\* A colour event that stays subscribed.
OnColorStaysSubscribed(d) ==
  [d EXCEPT !.stateFlags_ = @ \cup {"GotColor"}]

\* processInput_, JXL_DEC_COLOR_ENCODING (decoder.cpp:1387): a target's ICC
\* vector is written only when the codec reports a size for it.
OnColor(d) ==
  LET f == SrcFile(d) IN
  [d EXCEPT
     !.eventsSubbed_ = ClearBit(@, JXL_DEC_COLOR_ENCODING),
     !.stateFlags_ = @ \cup {"GotColor"}
                       \cup (IF f.enc.orig THEN {"GotOrigColorEnc"} ELSE {})
                       \cup (IF f.enc.data THEN {"GotDataColorEnc"} ELSE {}),
     !.origColorEnc_ = IF f.enc.orig THEN <<d.src, "orig">> ELSE @,
     !.dataColorEnc_ = IF f.enc.data THEN <<d.src, "data">> ELSE @,
     !.origIcc_ = IF f.iccOk.orig THEN f.icc.orig ELSE @,
     !.dataIcc_ = IF f.iccOk.data THEN f.icc.data ELSE @]

\* processInput_, JXL_DEC_ERROR (decoder.cpp:1231): the decoder is rewound
\* and ReadError thrown.
OnError(d) ==
  LET Rethrow(r) ==
        IF r.err = "Crash" THEN r
        ELSE Throw([r EXCEPT !.errRewinds = @ + r.rewinds - d.rewinds],
                   "ReadError")
  IN Rethrow(rewind_([d EXCEPT !.codecErrors = @ + 1], d.eventsSubbed_))

\* processInput_, JXL_DEC_JPEG_RECONSTRUCTION (decoder.cpp:1433)
OnJpeg(d) ==
  [d EXCEPT !.nextJpegIndex_ = @ + 1,
            !.jpegCount_ = Max(@, d.nextJpegIndex_ + 1)]

\* processInput_, the body of one iteration for the status in status_
\* (decoder.cpp:1230-1441); on JXL_DEC_SUCCESS the loop is not entered.
OnStatus(d) ==
  CASE d.status_ = JXL_DEC_SUCCESS -> AfterLoop(d)
    [] d.status_ = JXL_DEC_ERROR -> OnError(d)
    [] d.status_ = JXL_DEC_BASIC_INFO -> OnBasicInfo(d)
    [] d.status_ = JXL_DEC_NEED_MORE_INPUT -> OnNeedMoreInput(d)
    [] d.status_ = JXL_DEC_FRAME -> OnFrame(d)
    [] d.status_ = JXL_DEC_BOX -> OnBox(d)
    [] d.status_ = JXL_DEC_COLOR_ENCODING -> OnColor(d)
    [] d.status_ = JXL_DEC_NEED_IMAGE_OUT_BUFFER ->
         [d EXCEPT !.dec_ = JxlDecoderSkipCurrentFrame(@)]
    [] d.status_ = JXL_DEC_JPEG_RECONSTRUCTION -> OnJpeg(d)
    [] OTHER -> d

\* processInput_: whether it returns after the iteration: at the end, on an
\* exception, at the frame, box or JPEG it was asked to stop at, or with a
\* status that untilStatus names (decoder.cpp:1443).
LoopEnds(d, untilStatus, stop) ==
  \/ ~Ok(d)
  \/ d.status_ = JXL_DEC_SUCCESS
  \/ /\ d.status_ = JXL_DEC_FRAME
     /\ \/ stop.frame = "All" /\ Flag(d, "SeenAllFrames")
        \/ stop.frame = "Specific" /\ d.nextFrameIndex_ = stop.f + 1
  \/ /\ d.status_ = JXL_DEC_BOX
     /\ \/ stop.box = "All" /\ Flag(d, "SeenAllBoxes")
        \/ stop.box = "Specific" /\ d.nextBoxIndex_ = stop.b + 1
  \/ /\ d.status_ = JXL_DEC_JPEG_RECONSTRUCTION
     /\ \/ stop.jpeg = "All" /\ Flag(d, "SeenAllJpeg")
        \/ stop.jpeg = "Specific" /\ d.nextJpegIndex_ = stop.j + 1
  \/ /\ d.status_ # JXL_DEC_NEED_IMAGE_OUT_BUFFER
     /\ BitAnd(d.status_, untilStatus) # 0

\* status_ = JxlDecoderProcessInput(dec) (decoder.cpp:1229)
SetStatus(d, c) == [d EXCEPT !.dec_ = c, !.status_ = c.st]

RECURSIVE processInput_(_, _, _)
\* Decoder::processInput_ (decoder.cpp:1199).  The status it returns is
\* left in status_.
processInput_(d0, untilStatus, stop) ==
  LET \* what is returned to the caller, and for which untilStatus
      Returned(d1) ==
        IF Ok(d1)
        THEN [d1 EXCEPT !.returned =
                @ \cup {[status |-> d1.status_, until |-> untilStatus]}]
        ELSE d1
      \* an iteration that changes nothing is repeated for ever
      Iterated(d1) ==
        IF LoopEnds(d1, untilStatus, stop) THEN Returned(d1)
        ELSE IF d1 = d0 THEN Throw(d1, "Hang")
        ELSE processInput_(d1, untilStatus, stop)
  IN Iterated(OnStatus(SetStatus(d0,
                JxlDecoderProcessInput(d0.dec_, SrcFile(d0)))))

\* Decoder::open_ (decoder.cpp:145)
open_(d, flags, hints, bufferB, allocateFull, fromMemory) ==
  LET coalescing == "NoCoalesce" \notin flags
      eventsWanted ==
        JXL_DEC_BASIC_INFO + JXL_DEC_FRAME
        + (IF "WantBoxes" \in hints THEN JXL_DEC_BOX ELSE 0)
        + (IF "NoPixels" \in hints /\ "WantJpeg" \notin hints
           THEN 0 ELSE JXL_DEC_FULL_IMAGE)
        + (IF "WantJpeg" \in hints THEN JXL_DEC_JPEG_RECONSTRUCTION
           ELSE 0)
        + (IF "NoColorProfile" \in hints THEN 0
           ELSE JXL_DEC_COLOR_ENCODING)
      Configure(d0) ==
        [d0 EXCEPT
           !.stateFlags_ = IF coalescing THEN @ \cup {"IsCoalescing"} ELSE @,
           !.dec_ = JxlDecoderSetCoalescing(@, coalescing),
           !.inBufferMax_ = bufferB,
           !.inBufferCap_ = IF allocateFull THEN bufferB
                            ELSE Min(bufferB, kDefaultChunkBytes)]
      FirstRead(d1, got, s) ==
        [d1 EXCEPT
           !.inBufferPrivate_ = Resize(got, d1.inBufferCap_),
           !.inBufferPtr_ = "private",
           !.inBufferLength_ = Len(got),
           !.stream = s,
           !.stateFlags_ = IF s.eof THEN @ \cup {"WholeFileBuffered"}
                           ELSE @]
      Buffer(d1) ==
        IF fromMemory
        THEN [d1 EXCEPT !.inBufferLength_ = bufferB,
                        !.inBufferPtr_ = "user",
                        !.stateFlags_ = @ \cup {"WholeFileBuffered"}]
        ELSE FirstRead(d1,
               StreamGot(d1.stream, SrcFile(d1), d1.inBufferCap_),
               StreamPeek(StreamRead(d1.stream, SrcFile(d1),
                                     d1.inBufferCap_),
                          SrcFile(d1)))
      Signature(d2, sig) ==
        IF sig # "codestream" /\ sig # "container"
        THEN Throw(d2, "ReadError")
        ELSE IF sig = "codestream" THEN SetFlag(d2, "SeenAllBoxes") ELSE d2
      Check(d2) ==
        Signature(d2, JxlSignatureCheck(SrcFile(d2),
                                        Window(d2, 0, d2.inBufferLength_)))
      SetInput(d3) ==
        [d3 EXCEPT !.dec_ =
           IF Flag(d3, "WholeFileBuffered")
           THEN JxlDecoderCloseInput(JxlDecoderSetInput(@,
                  Window(d3, 0, d3.inBufferLength_)))
           ELSE JxlDecoderSetInput(@, Window(d3, 0, d3.inBufferLength_))]
      Subscribe(d5) ==
        [d5 EXCEPT !.stateFlags_ = @ \cup {"IsOpen"},
                   !.dec_ = JxlDecoderSubscribeEvents(@, eventsWanted),
                   !.eventsSubbed_ = eventsWanted]
  IN Then(Then(Check(Buffer(Configure(d))), SetInput), Subscribe)

\* Decoder::openStream (decoder.cpp:242).  bufferB stands for
\* bufferKiB * 1024; 0 asks for the default.
openStream(d, src, seekable, pre, flags, hints, bufferB) ==
  open_([close_(d, TRUE) EXCEPT
           !.src = src, !.stream = NewStream(seekable, pre),
           !.inStreamStart_ = StreamTell(NewStream(seekable, pre))],
        flags, hints,
        IF bufferB > 0 THEN bufferB ELSE kDefaultBufferKiB,
        FALSE, FALSE)

\* Decoder::openMemory (decoder.cpp:260)
openMemory(d, src, flags, hints) ==
  open_([close_(d, TRUE) EXCEPT
           !.src = src, !.stream = NoStream,
           !.mem = [k \in 1..FileLen(Files[src]) |-> k]],
        flags, hints, FileLen(Files[src]), FALSE, TRUE)

\* Decoder::openFile (decoder.cpp:269): the file's size is known, so the
\* buffer is allocated in full, at most the file's size.
openFile(d, src, flags, hints, bufferB) ==
  LET b0 == IF bufferB > 0 THEN bufferB ELSE kDefaultBufferKiB
      fileSizeB == FileLen(Files[src])
  IN open_([close_(d, TRUE) EXCEPT !.src = src,
                                   !.stream = NewStream(TRUE, 0)],
           flags, hints,
           IF fileSizeB > 0 /\ fileSizeB < b0 THEN fileSizeB ELSE b0,
           fileSizeB > 0, FALSE)

\* ------------------------------------------------------ the query methods
Return(d, v) == [d EXCEPT !.ret = v]

\* Decoder::checkOpen_ (decoder.cpp:341)
checkOpen_(d) == IF Flag(d, "IsOpen") THEN d ELSE Throw(d, "UsageError")

\* Decoder::hasJpegReconstruction (decoder.cpp:1011)
hasJpegReconstruction(d) ==
  IF d.jpegCount_ > 0 THEN Return(d, [k |-> "bool", v |-> TRUE])
  ELSE IF Flag(d, "SeenAllJpeg") /\ d.jpegCount_ = 0
  THEN Return(d, [k |-> "bool", v |-> FALSE])
  ELSE
  Then(Then(Then(checkOpen_(d),
    LAMBDA d1 : IF ~HasBit(d1.eventsSubbed_, JXL_DEC_JPEG_RECONSTRUCTION)
                THEN rewind_(d1, SetBit(SetBit(d1.eventsSubbed_,
                                               JXL_DEC_JPEG_RECONSTRUCTION),
                                        JXL_DEC_FULL_IMAGE))
                ELSE d1),
    LAMBDA d2 : processInput_(d2, JXL_DEC_JPEG_RECONSTRUCTION, StopNone)),
    LAMBDA d3 : Return(d3, [k |-> "bool",
                            v |-> d3.status_ = JXL_DEC_JPEG_RECONSTRUCTION]))

\* Decoder::ensureBasicInfo_ (decoder.cpp:347)
ensureBasicInfo_(d) ==
  Then(Then(checkOpen_(d),
    LAMBDA d1 : IF Flag(d, "GotBasicInfo") THEN d1
                ELSE processInput_(d1, JXL_DEC_BASIC_INFO, StopNone)),
    LAMBDA d2 : IF ~Flag(d, "GotBasicInfo")
                   /\ d2.status_ # JXL_DEC_BASIC_INFO
                THEN Throw(d2, "ReadError") ELSE d2)

\* Decoder::getBasicInfo (decoder.cpp:361)
getBasicInfo(d) ==
  Then(ensureBasicInfo_(d),
    LAMBDA d1 : Return(d1, [k |-> "info", v |-> d1.basicInfo_]))

\* Decoder::ensureColor_ (decoder.cpp:458)
ensureColor_(d, goThereNow) ==
  LET pastColor == Flag(d, "GotColor")
      \* already there, or been there and not asked to go again
      there == d.status_ = JXL_DEC_COLOR_ENCODING
                 \/ ~(goThereNow \/ ~pastColor)
  IN
  Then(Then(Then(checkOpen_(d),
    LAMBDA d1 : IF ~there
                   /\ ((goThereNow /\ pastColor)
                       \/ ~HasBit(d1.eventsSubbed_, JXL_DEC_COLOR_ENCODING))
                THEN rewind_(d1, SetBit(d1.eventsSubbed_,
                                        JXL_DEC_COLOR_ENCODING))
                ELSE d1),
    LAMBDA d2 : IF there THEN d2
                ELSE processInput_(d2, JXL_DEC_COLOR_ENCODING, StopNone)),
    LAMBDA d3 : IF there THEN d3
                ELSE IF d3.status_ # JXL_DEC_COLOR_ENCODING
                THEN Throw([d3 EXCEPT !.stateFlags_ =
                              @ \ {"GotOrigColorEnc", "GotDataColorEnc"}],
                           "ReadError")
                ELSE SetFlag(d3, "GotColor"))

\* Decoder::setPreferredOutputColorProfile from its second test on
\* (decoder.cpp:409).  colorEncoding is "" for a null pointer; iccData says
\* that ICC data is given.  The size of the data profile is asked for
\* without looking at the answer: when the codec has none, the vector gets
\* the length the caller passed, which is 0 with no ICC data.
AfterPixelCheck(d, colorEncoding, iccData) ==
  LET f == SrcFile(d)
      Set(d1) ==
        IF JxlSetOutputProfileOk(d1.dec_, iccData)
        THEN [d1 EXCEPT !.dec_ = JxlDecoderSetOutputColorProfile(
                                   @, f, colorEncoding),
                        !.ret = [k |-> "bool", v |-> TRUE]]
        ELSE [d1 EXCEPT !.ret = [k |-> "bool", v |-> FALSE]]
      Refetch(d2) ==
        [d2 EXCEPT
           !.stateFlags_ = IF JxlDataEncOk(d2.dec_, f)
                           THEN @ \cup {"GotDataColorEnc"} ELSE @,
           !.dataColorEnc_ = IF JxlDataEncOk(d2.dec_, f)
                             THEN JxlDataEnc(d2.dec_, d2.src) ELSE @,
           !.dataIcc_ = IF f.iccOk.data THEN f.icc.data ELSE <<>>,
           !.ret.v = /\ @
                     /\ (colorEncoding # "" => JxlDataEncOk(d2.dec_, f))
                     /\ (iccData => f.iccOk.data /\ f.icc.data # <<>>)]
      Checked(d3) ==
        IF ~Flag(d3, "GotDataColorEnc") /\ d3.dataIcc_ = <<>>
        THEN Throw([d3 EXCEPT !.ret = NoRet], "ReadError") ELSE d3
  IN IF iccData /\ ~Flag(d, "HaveCms") THEN Throw(d, "UsageError")
     ELSE IF colorEncoding = "" /\ ~iccData THEN Throw(d, "UsageError")
     ELSE Then(Then(Then(
            ensureColor_([d EXCEPT
                            !.stateFlags_ = @ \ {"GotDataColorEnc"},
                            !.dataIcc_ = <<>>], TRUE),
            Set), Refetch), Checked)

\* A decoder that lets the output profile change after pixels were decoded.
setPreferredOutputColorProfileAnyTime(d, colorEncoding, iccData) ==
  AfterPixelCheck(d, colorEncoding, iccData)

\* Decoder::setPreferredOutputColorProfile (decoder.cpp:403)
setPreferredOutputColorProfile(d, colorEncoding, iccData) ==
  IF Flag(d, "DecodedSomePixels") THEN Throw(d, "UsageError")
  ELSE AfterPixelCheck(d, colorEncoding, iccData)

\* Decoder::getIccProfile (decoder.cpp:478)
getIccProfile(d, target) ==
  Then(ensureColor_(d, FALSE),
    LAMBDA d1 : Return(d1, [k |-> "icc",
                            v |-> IF target = "data" THEN d1.dataIcc_
                                  ELSE d1.origIcc_]))

\* Decoder::getEncodedColorProfile (decoder.cpp:490)
getEncodedColorProfile(d, target) ==
  LET Found(d1, got) ==
        Return(d1, [k |-> "enc", ok |-> got,
                    v |-> IF ~got THEN ""
                          ELSE IF target = "data" THEN d1.dataColorEnc_
                          ELSE d1.origColorEnc_])
  IN Then(ensureColor_(d, FALSE),
       LAMBDA d1 : Found(d1, IF target = "data"
                             THEN Flag(d1, "GotDataColorEnc")
                             ELSE Flag(d1, "GotOrigColorEnc")))

\* Decoder::frameCount (decoder.cpp:507)
frameCount(d) ==
  IF Flag(d, "SeenAllFrames")
  THEN Return(d, [k |-> "count", v |-> Len(d.frames_)])
  ELSE IF Flag(d, "GotBasicInfo") /\ Flag(d, "IsCoalescing")
          /\ ~d.basicInfo_.have_animation
  THEN Return(d, [k |-> "count", v |-> 1])
  ELSE
  Then(Then(Then(Then(checkOpen_(d),
    LAMBDA d1 : IF ~HasBit(d1.eventsSubbed_, JXL_DEC_FRAME)
                THEN rewind_(d1, SetBit(d1.eventsSubbed_, JXL_DEC_FRAME))
                ELSE d1),
    LAMBDA d2 : IF d2.nextFrameIndex_ < Len(d2.frames_)
                THEN [d2 EXCEPT
                        !.dec_ = JxlDecoderSkipFrames(@,
                                   Len(d2.frames_) - d2.nextFrameIndex_),
                        !.nextFrameIndex_ = Len(d2.frames_)]
                ELSE d2),
    LAMBDA d3 : processInput_(d3, 0, StopAllFrames)),
    LAMBDA d4 : Return(d4, [k |-> "count", v |-> Len(d4.frames_)]))

\* A goToFrame_ that skips straight to the requested index, past frames whose
\* headers were never recorded.
skipToFrameUnclamped(d, index) == index

\* goToFrame_: the number of frames to skip to (decoder.cpp:669)
skipToFrame(d, index) == Min(index, Len(d.frames_))

\* Decoder::goToFrame_ (decoder.cpp:642)
goToFrame_(d, index) ==
  LET \* frames whose headers are cached are skipped (669)
      SkipTo(d1, to) ==
        IF d1.nextFrameIndex_ # to
        THEN [d1 EXCEPT
                !.dec_ = JxlDecoderSkipFrames(@, to - d1.nextFrameIndex_),
                !.nextFrameIndex_ = to]
        ELSE d1
  IN
  IF Flag(d, "SeenAllFrames") /\ index >= Len(d.frames_)
  THEN Throw(d, "IndexOutOfRange")
  ELSE IF d.status_ = JXL_DEC_FRAME /\ index = d.nextFrameIndex_ - 1 THEN d
  ELSE
  Then(Then(Then(
    IF ~HasBit(d.eventsSubbed_, JXL_DEC_FRAME) \/ d.nextFrameIndex_ > index
    THEN rewind_(d, SetBit(d.eventsSubbed_, JXL_DEC_FRAME))
    ELSE d,
    LAMBDA d1 : SkipTo(d1, skipToFrame(d1, index))),
    LAMBDA d2 : processInput_(d2, 0, StopFrame(index))),
    LAMBDA d3 : IF d3.status_ # JXL_DEC_FRAME
                   \/ d3.nextFrameIndex_ - 1 # index
                THEN Throw(d3, "ReadError") ELSE d3)

\* std::vector::at
At(d, v, index) ==
  IF index < Len(v) THEN Return(d, [k |-> "rec", v |-> v[index + 1]])
  ELSE Throw(d, "out_of_range")

\* Decoder::getFrameInfo (decoder.cpp:684)
getFrameInfo(d, index) ==
  Then(IF index >= Len(d.frames_)
       THEN Then(checkOpen_(d), LAMBDA o : goToFrame_(o, index))
       ELSE d,
    LAMBDA d1 : At(d1, d1.frames_, index))

\* Decoder::getFramePixels (decoder.cpp:692), called with a buffer that is
\* large enough and with no extra channels.
getFramePixels(d, frameIndex) ==
  IF Flag(d, "SeenAllFrames") /\ frameIndex >= Len(d.frames_)
  THEN Throw(d, "IndexOutOfRange")
  ELSE
  Then(Then(Then(Then(Then(
    IF ~HasBit(d.eventsSubbed_, JXL_DEC_FULL_IMAGE)
    THEN rewind_(d, SetBit(d.eventsSubbed_, JXL_DEC_FULL_IMAGE))
    ELSE d,
    LAMBDA d1 : goToFrame_(d1, frameIndex)),
    LAMBDA d2 : IF frameIndex >= Len(d2.frames_)
                THEN Throw(d2, "out_of_range") ELSE d2),
    LAMBDA d3 : IF ~JxlSetImageOutOk(d3.dec_)
                THEN Throw(SetFlag(d3, "DecodedSomePixels"), "LibraryError")
                ELSE [d3 EXCEPT
                        !.stateFlags_ = @ \cup {"DecodedSomePixels"},
                        !.dec_ = JxlDecoderSetImageOutBuffer(@)]),
    LAMBDA d4 : processInput_(d4, JXL_DEC_FULL_IMAGE, StopNone)),
    LAMBDA d5 : IF d5.status_ # JXL_DEC_FULL_IMAGE
                   \/ d5.nextFrameIndex_ - 1 # frameIndex
                THEN Throw(d5, "ReadError")
                ELSE Return(d5, [k |-> "pixels",
                                 v |-> SrcFile(d5).bytes[d5.dec_.pixels].v]))

\* Decoder::goToBox_ (decoder.cpp:860)
goToBox_(d, index) ==
  IF Flag(d, "SeenAllBoxes") /\ index >= Len(d.boxes_)
  THEN Throw(d, "IndexOutOfRange")
  ELSE IF d.status_ = JXL_DEC_BOX /\ index = d.nextBoxIndex_ - 1 THEN d
  ELSE
  Then(Then(
    IF index < d.nextBoxIndex_ \/ ~HasBit(d.eventsSubbed_, JXL_DEC_BOX)
    THEN rewind_(d, SetBit(d.eventsSubbed_, JXL_DEC_BOX))
    ELSE d,
    LAMBDA d1 : processInput_(d1, 0, StopBox(index))),
    LAMBDA d2 : IF d2.status_ # JXL_DEC_BOX
                THEN Throw(d2, "IndexOutOfRange") ELSE d2)

\* Decoder::getBoxInfo (decoder.cpp:839)
getBoxInfo(d, index) ==
  Then(IF index >= Len(d.boxes_) THEN goToBox_(d, index) ELSE d,
    LAMBDA d1 : At(d1, d1.boxes_, index))

\* Decoder::boxCount (decoder.cpp:846)
boxCount(d) ==
  IF Flag(d, "SeenAllBoxes")
  THEN Return(d, [k |-> "count", v |-> Len(d.boxes_)])
  ELSE
  Then(Then(Then(checkOpen_(d),
    LAMBDA d1 : IF ~HasBit(d1.eventsSubbed_, JXL_DEC_BOX)
                THEN rewind_(d1, SetBit(d1.eventsSubbed_, JXL_DEC_BOX))
                ELSE d1),
    LAMBDA d2 : processInput_(d2, 0, StopAllBoxes)),
    LAMBDA d3 : Return(d3, [k |-> "count", v |-> Len(d3.boxes_)]))

\* The statuses getBoxContent runs the decoder until (decoder.cpp:901,943).
BoxUntil ==
  BitOr(BitOr(JXL_DEC_SUCCESS, JXL_DEC_BOX), JXL_DEC_BOX_NEED_MORE_OUTPUT)

\* SetDecompressBoxes is called for compressed boxes only; exception is
\* what is thrown when the codec refuses (decoder.cpp:889, 928).
WithDecompress(d, index, decompress, exception) ==
  IF ~d.boxes_[index + 1].compressed THEN d
  ELSE IF ~JxlSetDecompressBoxesOk(d.brotli, decompress)
  THEN Throw(d, exception)
  ELSE [d EXCEPT !.dec_ = JxlDecoderSetDecompressBoxes(@, decompress)]

\* A getBoxContent that records the number of bytes delivered as the size
\* of an unbounded box whatever status the decoder stopped with.
WithSizeOfAnyResult(d, index, result, dataSize) ==
  IF d.boxes_[index + 1].unbounded
  THEN [d EXCEPT !.boxes_[index + 1].size = dataSize]
  ELSE d

\* An unbounded box learns its size when the decoder reaches the end
\* (decoder.cpp:909, 955).
WithKnownSize(d, index, result, dataSize) ==
  IF result = JXL_DEC_SUCCESS /\ d.boxes_[index + 1].unbounded
  THEN [d EXCEPT !.boxes_[index + 1].size = dataSize]
  ELSE d

\* Decoder::getBoxContent into caller's memory of max bytes
\* (decoder.cpp:879)
getBoxContentPtr(d, index, max, decompress) ==
  LET Written(d5, result, dataSize) ==
        Return(WithKnownSize(
                 [d5 EXCEPT !.dec_ = JxlDecoderReleaseBoxBuffer(@)],
                 index, result, dataSize),
               [k |-> "content",
                ok |-> result = JXL_DEC_SUCCESS \/ result = JXL_DEC_BOX,
                data |-> Take(d5.dec_.outData, dataSize)])
  IN
  Then(Then(Then(Then(Then(Then(checkOpen_(d),
    LAMBDA d1 : goToBox_(d1, index)),
    LAMBDA d2 : IF index >= Len(d2.boxes_)
                THEN Throw(d2, "out_of_range") ELSE d2),
    LAMBDA d3 : WithDecompress(d3, index, decompress, "NoBrotliError")),
    LAMBDA d4 : IF ~JxlSetBoxBufferOk(d4.dec_) THEN Throw(d4, "ReadError")
                ELSE [d4 EXCEPT !.dec_ = JxlDecoderSetBoxBuffer(@, max)]),
    LAMBDA d4 : processInput_(d4, BoxUntil, StopNone)),
    LAMBDA d5 : Written(d5, d5.status_, max - JxlNotWritten(d5.dec_)))

RECURSIVE BoxContentLoop(_, _, _, _, _, _, _)
\* The loop of the vector getBoxContent (decoder.cpp:938): out is what has
\* been written to the vector, size the vector's size, availOut the space
\* offered to the codec in this round.
BoxContentLoop(d, index, realMax, expectedBoxSize, out, size, availOut) ==
  LET Grown(d2, out1, totalWritten, newSize) ==
        BoxContentLoop(d2, index, realMax, expectedBoxSize, out1,
                       newSize, newSize - totalWritten)
      Released(d2, result, notWritten, out1, totalWritten) ==
        IF result = JXL_DEC_SUCCESS \/ result = JXL_DEC_BOX THEN
          IF expectedBoxSize > 0 /\ totalWritten # expectedBoxSize
          THEN Throw(d2, "ReadError")
          ELSE Return(WithKnownSize(d2, index, result, totalWritten),
                      [k |-> "content", ok |-> TRUE,
                       data |-> Take(out1, totalWritten)])
        ELSE IF size = realMax THEN
          Return(d2, [k |-> "content", ok |-> FALSE,
                      data |-> Take(out1, size - notWritten)])
        ELSE Grown(d2, out1, totalWritten,
                   Min(safeMul(Max(size, kBoxGrowFloor), 2), realMax))
      Written(d1, notWritten) ==
        Released([d1 EXCEPT !.dec_ = JxlDecoderReleaseBoxBuffer(@)],
                 d1.status_, notWritten,
                 out \o Take(d1.dec_.outData, availOut - notWritten),
                 Len(out) + availOut - notWritten)
  IN
  Then(Then(
    IF ~JxlSetBoxBufferOk(d.dec_) THEN Throw(d, "ReadError")
    ELSE [d EXCEPT !.dec_ = JxlDecoderSetBoxBuffer(@, availOut)],
    LAMBDA d0 : processInput_(d0, BoxUntil, StopNone)),
    LAMBDA d1 : Written(d1, JxlNotWritten(d1.dec_)))

\* Decoder::getBoxContent into a vector (decoder.cpp:915); max < 0 is no
\* limit.
getBoxContent(d, index, max, decompress) ==
  LET realMax == IF max >= 0 THEN max ELSE SIZE_MAX
      FirstSize(expectedBoxSize) ==
        Min(realMax, Max(expectedBoxSize, kBoxFirstBytes))
  IN
  Then(Then(Then(Then(checkOpen_(d),
    LAMBDA d1 : goToBox_(d1, index)),
    LAMBDA d2 : IF index >= Len(d2.boxes_)
                THEN Throw(d2, "out_of_range") ELSE d2),
    LAMBDA d2 : WithDecompress(d2, index, decompress, "LibraryError")),
    LAMBDA d3 : BoxContentLoop(d3, index,
                               realMax, d3.boxes_[index + 1].size, <<>>,
                               FirstSize(d3.boxes_[index + 1].size),
                               FirstSize(d3.boxes_[index + 1].size)))

RECURSIVE LevelLoop(_, _)
\* The loop of getCodestreamLevel over the boxes from boxIndex on
\* (decoder.cpp:990).
LevelLoop(d, boxIndex) ==
  LET Level(d2) ==
        IF d2.ret.ok /\ Len(d2.ret.data) = 1
        THEN Return(d2, [k |-> "level",
                         v |-> SrcFile(d2).bytes[d2.ret.data[1]].v])
        ELSE Return(d2, [k |-> "level", v |-> -1])
  IN
  Then(IF boxIndex >= Len(d.boxes_) /\ ~Flag(d, "SeenAllBoxes")
       THEN processInput_(d, JXL_DEC_SUCCESS, StopBox(boxIndex))
       ELSE d,
    LAMBDA d1 :
      IF boxIndex >= Len(d.boxes_)
         /\ (Flag(d, "SeenAllBoxes") \/ d1.status_ # JXL_DEC_BOX)
      THEN Return(d1, [k |-> "level", v |-> -1])
      ELSE IF d1.boxes_[boxIndex + 1].type = "jxll"
      THEN Then(getBoxContentPtr(d1, boxIndex, 1, FALSE), Level)
      ELSE LevelLoop(d1, boxIndex + 1))

\* Decoder::getCodestreamLevel (decoder.cpp:984)
getCodestreamLevel(d) ==
  Then(ensureBasicInfo_(d),
    LAMBDA d1 : IF ~d1.basicInfo_.have_container
                THEN Return(d1, [k |-> "level", v |-> -1])
                ELSE LevelLoop(d1, 2))

\* Decoder::close (decoder.cpp:337)
close(d) == close_(d, FALSE)

\* ensurePopulatedTo_ without its first line, which keeps an iterator that
\* equals end() where it is.
ensurePopulatedToFromEnd(d, index_, index) ==
  IF index < Len(d.frames_) THEN Return(d, [k |-> "it", v |-> index])
  ELSE IF Flag(d, "SeenAllFrames")
  THEN Return(d, [k |-> "it", v |-> SIZE_MAX])
  ELSE Then(processInput_(d, 0, StopFrame(index)),
         LAMBDA d1 : Return(d1, [k |-> "it",
                                 v |-> IF d1.status_ # JXL_DEC_FRAME
                                       THEN SIZE_MAX ELSE index]))

\* Decoder::FrameIterator::ensurePopulatedTo_ (decoder.cpp:799) on an
\* iterator of decoder d that stands at index_; returned is its new index_.
ensurePopulatedTo_(d, index_, index) ==
  IF index_ = SIZE_MAX THEN Return(d, [k |-> "it", v |-> index_])
  ELSE IF index < Len(d.frames_) THEN Return(d, [k |-> "it", v |-> index])
  ELSE IF Flag(d, "SeenAllFrames")
  THEN Return(d, [k |-> "it", v |-> SIZE_MAX])
  ELSE Then(processInput_(d, 0, StopFrame(index)),
         LAMBDA d1 : Return(d1, [k |-> "it",
                                 v |-> IF d1.status_ # JXL_DEC_FRAME
                                       THEN SIZE_MAX ELSE index]))

\* Decoder::FrameIterator::FrameIterator (decoder.cpp:792), for begin()
FrameIterator(d) == ensurePopulatedTo_(d, 0, 0)

\* Decoder::FrameIterator::operator++ (decoder.cpp:812); size_t wraps
\* around.
Increment(d, index_) ==
  ensurePopulatedTo_(d, index_, (index_ + 1) % (SIZE_MAX + 1))

\* Decoder::FrameIterator::operator+= (decoder.cpp:823)
Advance(d, index_, count) ==
  IF count < 0 THEN Throw(d, "UsageError")
  ELSE ensurePopulatedTo_(d, index_, (index_ + count) % (SIZE_MAX + 1))

\* ------------------------------------------------- sizes of pixel buffers
\* Arithmetic in size_t.
Wrap(n) == n % (SIZE_MAX + 1)

\* safeMul (decoder.cpp:100) in full: the product it stores and the value it
\* returns.
Product(a, b) == Wrap(a * b)
NoOverflow(a, b) == a = 0 \/ a = 1 \/ b = 1 \/ Product(a, b) \div a = b

\* bytesPerSample (decoder.cpp:90)
DataTypes == {"JXL_TYPE_UINT8", "JXL_TYPE_UINT16", "JXL_TYPE_FLOAT",
              "JXL_TYPE_FLOAT16"}
bytesPerSample(dataType) ==
  CASE dataType = "JXL_TYPE_UINT8" -> 1
    [] dataType = "JXL_TYPE_UINT16" -> 2
    [] dataType = "JXL_TYPE_FLOAT" -> 4
    [] dataType = "JXL_TYPE_FLOAT16" -> 2

\* JxlPixelFormat, without the endianness, which no size depends on.
PixelFormats ==
  [num_channels : 0..MaxChannels, data_type : DataTypes, align : 0..MaxAlign]

\* Decoder::getRowStride (decoder.cpp:572): the stride it returns and what
\* it stores in *rowPadding (nothing, here 0, when it returns early).
getRowStride(xsize, format) ==
  LET bytesPerPixel == Product(bytesPerSample(format.data_type),
                               format.num_channels)
      bytesPerRow == Product(bytesPerPixel, xsize)
      remainder == bytesPerRow % format.align
      lrowPadding == IF format.align > 1 /\ remainder > 0
                     THEN format.align - remainder ELSE 0
  IN IF ~NoOverflow(bytesPerSample(format.data_type), format.num_channels)
     THEN [stride |-> 0, rowPadding |-> 0]
     ELSE IF ~NoOverflow(bytesPerPixel, xsize)
     THEN [stride |-> 0, rowPadding |-> 0]
     ELSE [stride |-> Wrap(bytesPerRow + lrowPadding),
           rowPadding |-> lrowPadding]

\* getFrameBufferSize that asks for the padding of the last row too.
getFrameBufferSizePadded(d, xsize, ysize, pixelFormat) ==
  LET row == getRowStride(xsize, pixelFormat)
  IN IF row.stride = 0 THEN Throw(d, "JxlazyException")
     ELSE IF ~NoOverflow(row.stride, ysize) THEN Throw(d, "JxlazyException")
     ELSE Return(d, [k |-> "size", v |-> Product(row.stride, ysize)])

\* Decoder::getFrameBufferSize (decoder.cpp:595), the static one; its
\* exception is a plain JxlazyException with the message "Buffer memory
\* requirement is too large."
getFrameBufferSize(d, xsize, ysize, pixelFormat) ==
  LET row == getRowStride(xsize, pixelFormat)
  IN IF row.stride = 0 THEN Throw(d, "JxlazyException")
     ELSE IF ~NoOverflow(row.stride, ysize) THEN Throw(d, "JxlazyException")
     ELSE Return(d, [k |-> "size",
                     v |-> Wrap(SIZE_MAX + 1 + Product(row.stride, ysize)
                                - row.rowPadding)])

\* The layer_info of a frame header: the sizes of the frame.
LayerXsize(header) == 1 + (header.id % 2)
LayerYsize(header) == 2

\* Decoder::ensureExtraChannelInfo_ (decoder.cpp:376)
ensureExtraChannelInfo_(d) ==
  Then(ensureBasicInfo_(d),
    LAMBDA d1 :
      IF Len(d1.extra_) >= d1.basicInfo_.num_extra_channels THEN d1
      ELSE IF ~d1.dec_.gotBI THEN Throw(d1, "ReadError")
      ELSE [d1 EXCEPT !.extra_ =
              [i \in 1..d1.basicInfo_.num_extra_channels |->
                 [info |-> <<d1.src, i - 1>>]]])

\* getFramePixels, the format an extra channel is written in
\* (decoder.cpp:720)
realFormat(req) ==
  [num_channels |-> 1, data_type |-> req.format.data_type,
   align |-> req.format.align]

RECURSIVE CheckRequests(_, _, _)
\* getFramePixels, the loop that checks the requests (decoder.cpp:714)
CheckRequests(d, header, reqs) ==
  IF reqs = <<>> THEN d
  ELSE IF Head(reqs).channelIndex >= Len(d.extra_)
  THEN Throw(d, "IndexOutOfRange")
  ELSE LET sized == getFrameBufferSize(d, LayerXsize(header),
                                        LayerYsize(header),
                                        realFormat(Head(reqs)))
       IN IF ~Ok(sized) THEN sized
          ELSE IF Head(reqs).capacity < sized.ret.v
          THEN Throw(d, "ReadError")
          ELSE CheckRequests(d, header, Tail(reqs))

RECURSIVE SetRequests(_, _)
\* getFramePixels, the loop that hands the buffers to the codec
\* (decoder.cpp:734)
SetRequests(d, reqs) ==
  IF reqs = <<>> THEN d
  ELSE IF ~JxlSetExtraChannelBufferOk(d.dec_, SrcFile(d),
                                      Head(reqs).channelIndex)
  THEN Throw(d, "LibraryError")
  ELSE SetRequests([d EXCEPT !.dec_ =
                      JxlDecoderSetExtraChannelBuffer(@,
                        Head(reqs).channelIndex)],
                   Tail(reqs))

\* Decoder::getFramePixels (decoder.cpp:692) with all its arguments: buffer
\* says whether the caller gives a buffer for the main channels and max is
\* its capacity.
getFramePixelsInto(d, frameIndex, pixelFormat, buffer, max, extraChannels) ==
  LET dummyFormat == [num_channels |-> 3, data_type |-> "JXL_TYPE_UINT8",
                      align |-> 0]
      \* the main buffer, or a dummy one (decoder.cpp:752)
      MainBuffer(d5) ==
        LET header == d5.frames_[frameIndex + 1].header
            sized == getFrameBufferSize(d5, LayerXsize(header),
                       LayerYsize(header),
                       IF buffer THEN pixelFormat ELSE dummyFormat)
        IN IF ~Ok(sized) THEN sized
           ELSE IF buffer /\ max < sized.ret.v THEN Throw(d5, "ReadError")
           ELSE IF ~JxlSetImageOutOk(d5.dec_) THEN Throw(d5, "LibraryError")
           ELSE [d5 EXCEPT !.dec_ = JxlDecoderSetImageOutBuffer(@)]
  IN
  IF ~buffer /\ extraChannels = <<>> THEN d
  ELSE IF Flag(d, "SeenAllFrames") /\ frameIndex >= Len(d.frames_)
  THEN Throw(d, "IndexOutOfRange")
  ELSE
  Then(Then(Then(Then(Then(Then(Then(Then(Then(
    IF ~HasBit(d.eventsSubbed_, JXL_DEC_FULL_IMAGE)
    THEN rewind_(d, SetBit(d.eventsSubbed_, JXL_DEC_FULL_IMAGE))
    ELSE d,
    LAMBDA d1 : goToFrame_(d1, frameIndex)),
    LAMBDA d2 : IF frameIndex >= Len(d2.frames_)
                THEN Throw(d2, "out_of_range") ELSE d2),
    LAMBDA d3 : IF extraChannels = <<>> THEN d3
                ELSE ensureExtraChannelInfo_(d3)),
    LAMBDA d3 : CheckRequests(d3, d3.frames_[frameIndex + 1].header,
                              extraChannels)),
    LAMBDA d3 : SetRequests(d3, extraChannels)),
    LAMBDA d4 : SetFlag(d4, "DecodedSomePixels")),
    MainBuffer),
    LAMBDA d6 : processInput_(d6, JXL_DEC_FULL_IMAGE, StopNone)),
    LAMBDA d7 : IF d7.status_ # JXL_DEC_FULL_IMAGE
                   \/ d7.nextFrameIndex_ - 1 # frameIndex
                THEN Throw(d7, "ReadError")
                ELSE Return(d7, [k |-> "pixels",
                                 v |-> SrcFile(d7).bytes[d7.dec_.pixels].v]))

\* Decoder::jxlIsFullyBuffered (decoder.cpp:1156)
jxlIsFullyBuffered(d) ==
  Return(d, [k |-> "bool", v |-> Flag(d, "WholeFileBuffered")])

\* kDefaultPixelFormat (pixmap.h:19)
kDefaultPixelFormat ==
  [num_channels |-> 4, data_type |-> "JXL_TYPE_FLOAT", align |-> 0]

\* A Pixmap (pixmap.h:204): decoder_ is the Decoder it owns, none or one;
\* err and ret are what its last call threw and returned.
NoPixelPtr == [has |-> FALSE, mem |-> <<>>]
PixelPtr(mem) == [has |-> TRUE, mem |-> mem]
Pixmap0 ==
  [pixels_ |-> NoPixelPtr, pixelFormat_ |-> kDefaultPixelFormat,
   xsize_ |-> 0, ysize_ |-> 0, filename_ |-> "", decoder_ |-> <<>>,
   decoderFrameIdx_ |-> 0, err |-> "none", ret |-> NoRet]

\* ---------------------------------------------------------- state machine
\* dec   the Decoder object under study
\* ref   a second Decoder that is given the same calls (see RefCfg)
\* last  the call made last: [op, args], and pre, what the decoder was like
\*       when the call was made
\* mode  which family of inputs this behaviour draws from
\* fi    index_ of the FrameIterator the caller holds on dec (SIZE_MAX for
\*       one that equals end())
\* pixmap  the Pixmap of the caller
VARIABLES dec, ref, last, mode, fi, pixmap
vars == <<dec, ref, last, mode, fi, pixmap>>

Cfg(kind, src, flags, hints, bufferB, seekable, pre) ==
  [kind |-> kind, src |-> src, flags |-> flags, hints |-> hints,
   bufferB |-> bufferB, seekable |-> seekable, pre |-> pre]

\* The ways a file is opened, per mode.
Configs(m) ==
  CASE m = "frames" ->
         { Cfg(k, "layers", fl, {}, MaxBufferB, TRUE, 0) :
             k \in {"memory", "stream"}, fl \in {{}, {"NoCoalesce"}} }
    [] m = "boxes" ->
         { Cfg(k, "gen", {}, {"WantBoxes"}, MaxBufferB, TRUE, 0) :
             k \in {"memory", "stream"} }
    [] m = "buffer" ->
         { Cfg("stream", "gen", {}, {"WantBoxes"}, b, TRUE, pre) :
             b \in {0, MaxBufferB}, pre \in {0, 1} }
    [] m = "hints" ->
         { Cfg("memory", src, {}, h, 0, TRUE, 0) :
             src \in {"gen", "level5"},
             h \in {{}, {"WantBoxes"}, {"NoPixels"}} }
    [] m = "closed" ->
         { Cfg(k, src, {}, {}, 0, TRUE, 0) :
             k \in {"memory", "stream"}, src \in {"bare", "junk"} }
    [] m = "reopen" ->
         { Cfg("memory", src, {}, {}, 0, TRUE, 0) :
             src \in {"gen", "bare"} }
    [] m = "iter" ->
         { Cfg("stream", "layers", fl, {}, MaxBufferB, TRUE, 0) :
             fl \in {{}, {"NoCoalesce"}} }
    [] m = "nobrotli" ->
         { Cfg(k, "gen", {}, {"WantBoxes"}, MaxBufferB, TRUE, 0) :
             k \in {"memory", "stream"} }
    [] m = "copy" ->
         { Cfg("stream", "gen", {}, {"WantBoxes"}, b, TRUE, 0) :
             b \in {0, MaxBufferB} }
    [] m = "pixels" ->
         { Cfg(k, "gen", {}, {}, MaxBufferB, TRUE, 0) :
             k \in {"memory", "stream"} }
    [] m = "jpeg" ->
         { Cfg("stream", src, fl, h, MaxBufferB, TRUE, 0) :
             src \in {"jpeg", "layers"}, fl \in {{}, {"NoCoalesce"}},
             h \in {{}, {"WantJpeg"}, {"WantBoxes", "WantJpeg"}} }
    [] m = "color" ->
         { Cfg(k, src, {}, {}, 0, TRUE, 0) :
             k \in {"memory", "stream"}, src \in {"gen", "layers"} }
    [] m = "errors" ->
         { Cfg("stream", src, {}, {}, b, seekable, 0) :
             src \in {"wide", "corrupt"}, b \in {1, MaxBufferB},
             seekable \in BOOLEAN }
    [] OTHER -> {}

\* The arguments the queries are called with, per mode: frame indices, box
\* indices, vector caps (-1: no limit), memory caps, decompress flags and
\* colour profile targets.
Args(m) ==
  CASE m = "frames" ->
         [fi |-> 0..MaxIndex, bi |-> {2}, caps |-> {-1}, pcaps |-> {1},
          dcs |-> {FALSE}, tg |-> {"orig"}]
    [] m = "boxes" ->
         [fi |-> {0}, bi |-> 4..MaxBox, caps |-> {-1} \cup 2..MaxCap,
          pcaps |-> {MaxCap}, dcs |-> BOOLEAN, tg |-> {"orig"}]
    [] m = "buffer" ->
         [fi |-> {0}, bi |-> {2, MaxBox}, caps |-> {-1, MaxCap},
          pcaps |-> {MaxCap}, dcs |-> {FALSE}, tg |-> {"orig"}]
    [] m = "hints" ->
         [fi |-> {0}, bi |-> {2}, caps |-> {-1}, pcaps |-> {1},
          dcs |-> {FALSE}, tg |-> {"orig"}]
    [] m = "nobrotli" ->
         [fi |-> {0}, bi |-> 3..4, caps |-> {-1, MaxCap},
          pcaps |-> {MaxCap}, dcs |-> BOOLEAN, tg |-> {"orig"}]
    [] m = "errors" ->
         [fi |-> {0, 1}, bi |-> {0, 2}, caps |-> {-1}, pcaps |-> {1},
          dcs |-> {FALSE}, tg |-> {"orig"}]
    [] m = "jpeg" ->
         [fi |-> {0, 1}, bi |-> {2, 4}, caps |-> {-1}, pcaps |-> {1},
          dcs |-> {FALSE}, tg |-> {"orig"}]
    [] OTHER ->
         [fi |-> {0}, bi |-> {0}, caps |-> {-1}, pcaps |-> {1},
          dcs |-> {FALSE}, tg |-> {"orig", "data"}]
Modes == {"frames", "boxes", "buffer", "hints", "closed", "reopen",
          "errors", "color", "nobrotli", "iter"}

\* One of the three open calls.
DoOpen(d, cfg) ==
  CASE cfg.kind = "memory" -> openMemory(d, cfg.src, cfg.flags, cfg.hints)
    [] cfg.kind = "stream" ->
         openStream(d, cfg.src, cfg.seekable, cfg.pre, cfg.flags,
                    cfg.hints, cfg.bufferB)
    [] OTHER -> openFile(d, cfg.src, cfg.flags, cfg.hints, cfg.bufferB)

\* How the second decoder is opened when dec is opened with cfg:
\*   "buffer"  from memory, on the same bytes
\*   "hints"   the same way, without hints
\*   "reopen"  the same way, on an object that never held another file
RefTracks(m) == m \in {"buffer", "hints", "reopen"}
RefOpen(m, r, cfg) ==
  CASE m = "buffer" -> DoOpen(r, [cfg EXCEPT !.kind = "memory"])
    [] m = "hints" -> DoOpen(r, [cfg EXCEPT !.hints = {}])
    [] m = "reopen" -> DoOpen(Decoder0, cfg)
    [] OTHER -> r

\* A call starts with nothing thrown and nothing returned; ub is what
\* undefined behaviour does in this call.
Call(d, ub) ==
  [d EXCEPT !.err = "none", !.ret = NoRet, !.ub = ub,
            !.rewinds = 0, !.seekFailed = FALSE, !.codecErrors = 0,
            !.errRewinds = 0, !.zeroProgress = "no", !.refill = <<>>,
            !.rewound = <<>>, !.returned = {}]
\* When the call is over, the caller's pixel buffer is the caller's again.
Done(d) == [d EXCEPT !.ub = "crash", !.dec_.pixels = -1]
\* Undefined behaviour is reached only through a null stream pointer, and
\* only by a decoder that is not open (NoCrashWhileOpen).
UBOutcomes == IF dec.stream.has \/ Flag(dec, "IsOpen") THEN {"crash"}
              ELSE {"crash", "benign"}
\* A call that crashed or never returns is the last one.
Gone == {"Crash", "Hang"}
Alive == dec.err \notin Gone /\ ref.err \notin Gone

\* What a call finds: is a file open, the next frame index, how many frame
\* records are cached and whether the frame count is known.
Pre(d) == [open |-> Flag(d, "IsOpen"), next |-> d.nextFrameIndex_,
           frames |-> Len(d.frames_),
           seenAllFrames |-> Flag(d, "SeenAllFrames")]
Last(op, args) == [op |-> op, args |-> args, pre |-> Pre(dec)]

\* A new Decoder, with the codec library of mode m.
New(m) == [Decoder0 EXCEPT !.brotli = m # "nobrotli"]

Init ==
  /\ mode \in Modes
  /\ dec = New(mode)
  /\ ref = Decoder0
  /\ last = [op |-> "new", args |-> <<>>, pre |-> Pre(Decoder0)]
  /\ fi = SIZE_MAX
  /\ pixmap = Pixmap0

\* The call Q made on decoder d.
Run(Q(_), d) == Q(d)

\* Make the call Q on both decoders.
Query(Q(_), op, args) ==
  /\ \E ub \in UBOutcomes :
       /\ dec' = Done(Run(Q, Call(dec, ub)))
       /\ ref' = IF RefTracks(mode) THEN Done(Run(Q, Call(ref, ub))) ELSE ref
  /\ last' = Last(op, args)
  /\ UNCHANGED <<mode, fi, pixmap>>

\* A file is opened once, except where reopening is what is studied.
Open ==
  /\ Alive
  /\ mode \in {"closed", "reopen"} \/ last.op = "new"
  /\ \E cfg \in Configs(mode) :
       /\ dec' = Done(Run(LAMBDA d : DoOpen(d, cfg), Call(dec, "crash")))
       /\ ref' = IF RefTracks(mode)
                 THEN Done(Run(LAMBDA r : RefOpen(mode, r, cfg),
                               Call(ref, "crash")))
                 ELSE ref
       /\ last' = Last("open", <<cfg>>)
  /\ UNCHANGED <<mode, fi, pixmap>>

Close ==
  /\ Alive
  /\ Query(LAMBDA d : close(d), "close", <<>>)
GetBasicInfo ==
  /\ Alive
  /\ Query(LAMBDA d : getBasicInfo(d), "getBasicInfo", <<>>)
FrameCount ==
  /\ Alive
  /\ Query(LAMBDA d : frameCount(d), "frameCount", <<>>)
GetFrameInfo ==
  /\ Alive
  /\ \E i \in Args(mode).fi :
       Query(LAMBDA d : getFrameInfo(d, i), "getFrameInfo", <<i>>)
GetFramePixels ==
  /\ Alive
  /\ \E i \in Args(mode).fi :
       Query(LAMBDA d : getFramePixels(d, i), "getFramePixels", <<i>>)
BoxCount ==
  /\ Alive
  /\ Query(LAMBDA d : boxCount(d), "boxCount", <<>>)
GetBoxInfo ==
  /\ Alive
  /\ \E i \in Args(mode).bi :
       Query(LAMBDA d : getBoxInfo(d, i), "getBoxInfo", <<i>>)
GetBoxContent ==
  /\ Alive
  /\ \E i \in Args(mode).bi, max \in Args(mode).caps,
        dc \in Args(mode).dcs :
       Query(LAMBDA d : getBoxContent(d, i, max, dc),
             "getBoxContent", <<i, max, dc>>)
GetBoxContentPtr ==
  /\ Alive
  /\ \E i \in Args(mode).bi, max \in Args(mode).pcaps,
        dc \in Args(mode).dcs :
       Query(LAMBDA d : getBoxContentPtr(d, i, max, dc),
             "getBoxContentPtr", <<i, max, dc>>)
GetCodestreamLevel ==
  /\ Alive
  /\ Query(LAMBDA d : getCodestreamLevel(d), "getCodestreamLevel", <<>>)
GetIccProfile ==
  /\ Alive
  /\ \E t \in Args(mode).tg :
       Query(LAMBDA d : getIccProfile(d, t), "getIccProfile", <<t>>)
GetEncodedColorProfile ==
  /\ Alive
  /\ \E t \in Args(mode).tg :
       Query(LAMBDA d : getEncodedColorProfile(d, t),
             "getEncodedColorProfile", <<t>>)
JxlIsFullyBuffered ==
  /\ Alive
  /\ Query(LAMBDA d : jxlIsFullyBuffered(d), "jxlIsFullyBuffered", <<>>)

Next ==
  \/ Open
  \/ Close
  \/ GetBasicInfo
  \/ FrameCount
  \/ GetFrameInfo
  \/ GetFramePixels
  \/ BoxCount
  \/ GetBoxInfo
  \/ GetBoxContent
  \/ GetBoxContentPtr
  \/ GetCodestreamLevel
  \/ GetIccProfile
  \/ GetEncodedColorProfile
  \/ JxlIsFullyBuffered

Spec == Init /\ [][Next]_vars

HasJpegReconstruction ==
  /\ Alive
  /\ Query(LAMBDA d : hasJpegReconstruction(d),
           "hasJpegReconstruction", <<>>)

\* The arguments getFramePixels is called with, for a frame of 1 by 2
\* pixels: a format of 6 bytes and one whose size overflows, capacities
\* around 6, and requests for the extra channel the file has (2 bytes) and
\* for one it has not.
MainFormats ==
  { [num_channels |-> 3, data_type |-> "JXL_TYPE_UINT8", align |-> 0],
    [num_channels |-> (SIZE_MAX + 1) \div 4, data_type |-> "JXL_TYPE_FLOAT",
     align |-> 0] }
MainCaps == {5, 6}
Requests ==
  [channelIndex : {0, 1},
   format : {[num_channels |-> 3, data_type |-> "JXL_TYPE_UINT8",
              align |-> 0]},
   capacity : {1, 2}]
RequestLists ==
  UNION { [1..n -> Requests] : n \in 0..MaxRequests }
GetFramePixelsInto ==
  /\ Alive
  /\ \E pixelFormat \in MainFormats, buffer \in BOOLEAN, max \in MainCaps,
        extraChannels \in RequestLists :
       /\ ~buffer => max = 5 /\ pixelFormat.num_channels = 3
       /\ Query(LAMBDA d : getFramePixelsInto(d, 0, pixelFormat, buffer, max,
                                              extraChannels),
                "getFramePixelsInto",
                <<0, pixelFormat, buffer, max, extraChannels>>)

\* The calls of a caller who gives the buffers for the pixels.
NextPixels ==
  \/ Next
  \/ GetFramePixelsInto

\* The calls of a caller who also asks for the reconstructed JPEG.
NextJpeg ==
  \/ Next
  \/ HasJpegReconstruction

\* The output colour profile is asked for: an encoding, ICC data, both or
\* neither.
\* A call Q on the caller's iterator, which returns the iterator's new
\* index_; an exception leaves the iterator as it was.
Iterate(Q(_), op, args) ==
  /\ \E ub \in UBOutcomes : dec' = Done(Run(Q, Call(dec, ub)))
  /\ fi' = IF Ok(dec') THEN dec'.ret.v ELSE fi
  /\ last' = Last(op, args)
  /\ UNCHANGED <<ref, mode, pixmap>>
\* fi = jxl.begin()
Begin ==
  /\ Alive
  /\ Iterate(LAMBDA d : FrameIterator(d), "begin", <<>>)
\* ++fi
PlusPlus ==
  /\ Alive
  /\ Iterate(LAMBDA d : Increment(d, fi), "increment", <<fi>>)
\* fi += count
PlusEquals ==
  /\ Alive
  /\ \E count \in -1..MaxCount :
       Iterate(LAMBDA d : Advance(d, fi, count), "advance", <<fi, count>>)
NextIter ==
  \/ Next
  \/ Begin
  \/ PlusPlus
  \/ PlusEquals

\* ----------------------------------------------------------------- Pixmap
\* Memory that holds pixels is a sequence of bytes.  The first byte of a
\* sample stands for the whole sample and holds its value, the other bytes
\* of a sample hold -1; a byte that was never written holds -2.
Uninitialised(n) == [o \in 1..n |-> -2]
\* The memory of xsize by ysize pixels in the layout of format, which
\* getRowStride and getFrameBufferSize describe, with Sample(y, x, c) as
\* channel c of the pixel at x, y.
Cells(xsize, ysize, format, Sample(_, _, _)) ==
  LET stride == getRowStride(xsize, format).stride
      size == bytesPerSample(format.data_type)
      used == size * format.num_channels * xsize
  IN [o \in 1 .. stride * (ysize - 1) + used |->
       IF (o - 1) % stride >= used THEN -2
       ELSE IF ((o - 1) % stride) % size # 0 THEN -1
       ELSE Sample((o - 1) \div stride,
                   (((o - 1) % stride) \div size) \div format.num_channels,
                   (((o - 1) % stride) \div size) % format.num_channels)]

\* The value of full opacity for a sample type (pixmap.cpp:89, 96, 103 and
\* 275, 279, 283).
fullOpacity(dataType) ==
  CASE dataType = "JXL_TYPE_UINT8" -> 255
    [] dataType = "JXL_TYPE_UINT16" -> 65535
    [] OTHER -> 1

\* What undefined behaviour does in a call on a Pixmap: "crash" ends the
\* process; with "zero" and "max" it goes on, a read of memory that holds no
\* sample gives a sample of 0 or of full opacity, and the remainder of a
\* division by 0 is 0 or the dividend.
UBPixmap == {"crash", "zero", "max"}
\* *p for a T* p that points off bytes into mem; -3 for a crash.
Read(mem, off, dataType, ub) ==
  IF off + bytesPerSample(dataType) > Len(mem)
  THEN CASE ub = "crash" -> -3
         [] ub = "zero" -> 0
         [] OTHER -> fullOpacity(dataType)
  ELSE IF mem[off + 1] >= 0 THEN mem[off + 1]
  ELSE IF ub = "max" THEN fullOpacity(dataType) ELSE 0
\* a % b in size_t.
Rem(a, b, ub) ==
  IF b # 0 THEN a % b ELSE IF ub = "max" THEN a ELSE 0

\* What the codec writes for the pixels of the frame of that header: the
\* files have no alpha, so an alpha sample that is asked for is opaque.
DecodedSample(header, format, c) ==
  IF format.num_channels \in {2, 4} /\ c = format.num_channels - 1
  THEN fullOpacity(format.data_type)
  ELSE 2 + header.id
Decoded(header, format) ==
  Cells(LayerXsize(header), LayerYsize(header), format,
        LAMBDA y, x, c : DecodedSample(header, format, c))

\* A call q of the Pixmap's decoder: the Pixmap with the decoder as the
\* call leaves it, and with what the call threw or returned.
OnDecoder(p, q) ==
  [p EXCEPT !.decoder_ = <<Done(q)>>, !.err = q.err, !.ret = q.ret]
\* The header of the Pixmap's frame, once the decoder has read it.
FrameHeader(p) == p.decoder_[1].frames_[p.decoderFrameIdx_ + 1].header

\* Pixmap::setPixelsCopy (pixmap.cpp:194), with pixels of just the size
\* that validateSize asks for.
setPixelsCopy(p, xsize, ysize, format, pixels) ==
  Then(getFrameBufferSize(p, xsize, ysize, format),
    LAMBDA p1 : Return([p1 EXCEPT !.pixels_ = PixelPtr(pixels),
                                  !.xsize_ = xsize, !.ysize_ = ysize,
                                  !.pixelFormat_ = format,
                                  !.filename_ = "", !.decoder_ = <<>>],
                       NoRet))

\* Pixmap::setPixelsFile (pixmap.cpp:216)
setPixelsFile(p, filename, frameIdx, format) ==
  [p EXCEPT !.pixels_ = NoPixelPtr, !.xsize_ = 0, !.ysize_ = 0,
            !.pixelFormat_ = format, !.filename_ = filename,
            !.decoder_ = <<Decoder0>>, !.decoderFrameIdx_ = frameIdx]

\* Pixmap::setPixelsDecoder (pixmap.cpp:227)
setPixelsDecoder(p, decoder, frameIdx, format) ==
  [p EXCEPT !.pixels_ = NoPixelPtr, !.xsize_ = 0, !.ysize_ = 0,
            !.pixelFormat_ = format, !.filename_ = "",
            !.decoder_ = <<decoder>>, !.decoderFrameIdx_ = frameIdx]

\* Pixmap::ensureDecoder_ (pixmap.cpp:302)
ensureDecoder_(p) ==
  IF p.decoder_ # <<>> THEN p
  ELSE IF p.filename_ = "" THEN Throw(p, "JxltkError")
  ELSE OnDecoder(p, openFile(Call(Decoder0, "crash"), p.filename_,
                             {}, {}, 0))

\* decoder_->getFrameInfo(decoderFrameIdx_)
FrameInfoOf(p) ==
  OnDecoder(p, getFrameInfo(Call(p.decoder_[1], "crash"),
                            p.decoderFrameIdx_))

\* Pixmap::getXsize (pixmap.cpp:328)
getXsize(p) ==
  IF p.xsize_ > 0 THEN Return(p, [k |-> "size", v |-> p.xsize_])
  ELSE Then(Then(ensureDecoder_(p), LAMBDA p1 : FrameInfoOf(p1)),
         LAMBDA p2 : Return([p2 EXCEPT !.xsize_ = LayerXsize(FrameHeader(p2))],
                            [k |-> "size",
                             v |-> LayerXsize(FrameHeader(p2))]))

\* Pixmap::getYsize (pixmap.cpp:336)
getYsize(p) ==
  IF p.ysize_ > 0 THEN Return(p, [k |-> "size", v |-> p.ysize_])
  ELSE Then(Then(ensureDecoder_(p), LAMBDA p1 : FrameInfoOf(p1)),
         LAMBDA p2 : Return([p2 EXCEPT !.ysize_ = LayerYsize(FrameHeader(p2))],
                            [k |-> "size",
                             v |-> LayerYsize(FrameHeader(p2))]))

\* Pixmap::getBufferSize (pixmap.cpp:368)
getBufferSize(p) ==
  Then(Then(getXsize(p), LAMBDA p1 : getYsize(p1)),
    LAMBDA p2 : getFrameBufferSize(p2, p2.xsize_, p2.ysize_,
                                   p2.pixelFormat_))

\* makePixelPtr (pixmap.cpp:146) for pixels_
makePixelPtr(p, xsize, ysize, format) ==
  Then(getFrameBufferSize(p, xsize, ysize, format),
    LAMBDA p1 : [p1 EXCEPT !.pixels_ = PixelPtr(Uninitialised(p1.ret.v))])

\* Pixmap::ensureBuffered (pixmap.cpp:312); getFramePixels fills the memory
\* that makePixelPtr allocated.
ensureBuffered(p) ==
  IF p.pixels_.has THEN p
  ELSE
  Then(Then(Then(Then(Then(Then(ensureDecoder_(p),
    LAMBDA p1 : FrameInfoOf(p1)),
    LAMBDA p2 : [p2 EXCEPT !.xsize_ = LayerXsize(FrameHeader(p2)),
                           !.ysize_ = LayerYsize(FrameHeader(p2))]),
    LAMBDA p3 : makePixelPtr(p3, p3.xsize_, p3.ysize_, p3.pixelFormat_)),
    LAMBDA p4 : getBufferSize(p4)),
    LAMBDA p5 : OnDecoder(p5, getFramePixels(Call(p5.decoder_[1], "crash"),
                                             p5.decoderFrameIdx_))),
    LAMBDA p6 : Return([p6 EXCEPT
                          !.pixels_ = PixelPtr(Decoded(FrameHeader(p6),
                                                       p6.pixelFormat_))],
                       NoRet))

\* Pixmap::data (pixmap.cpp:359)
data(p) ==
  Then(ensureBuffered(p),
    LAMBDA p1 : Return(p1, [k |-> "pixels", v |-> p1.pixels_.mem]))

\* isFullyOpaque<T> (pixmap.cpp:121).  row is a T*, so row += stride moves
\* it on by stride samples; Scanned(k) is how many bytes into inSamples the
\* sample lies that is read k-th, from 0.
Scanned(format, xsize, k) ==
  ( (k \div xsize) * getRowStride(xsize, format).stride
    + format.num_channels - 1 + (k % xsize) * format.num_channels )
  * bytesPerSample(format.data_type)
isFullyOpaqueOf(p, inSamples, format, xsize, ysize, fullOpacity_, ub) ==
  LET NotOpaque == { k \in 0 .. xsize * ysize - 1 :
                      Read(inSamples, Scanned(format, xsize, k),
                           format.data_type, ub) # fullOpacity_ }
      first == CHOOSE k \in NotOpaque : \A j \in NotOpaque : k <= j
  IN IF format.num_channels # 2 /\ format.num_channels # 4
     THEN Return(p, [k |-> "bool", v |-> TRUE])
     ELSE IF NotOpaque = {} THEN Return(p, [k |-> "bool", v |-> TRUE])
     ELSE IF Read(inSamples, Scanned(format, xsize, first),
                  format.data_type, ub) = -3
     THEN Throw(p, "Crash")
     ELSE Return(p, [k |-> "bool", v |-> FALSE])

\* Pixmap::isFullyOpaque (pixmap.cpp:266), the static one
isFullyOpaqueStatic(p, pixels, xsize, ysize, format, ub) ==
  IF format.num_channels = 1 \/ format.num_channels = 3
  THEN Return(p, [k |-> "bool", v |-> TRUE])
  ELSE IF format.data_type \in {"JXL_TYPE_UINT8", "JXL_TYPE_UINT16",
                                "JXL_TYPE_FLOAT"}
  THEN isFullyOpaqueOf(p, pixels, format, xsize, ysize,
                       fullOpacity(format.data_type), ub)
  ELSE Throw(p, "NotImplemented")

\* Pixmap::isFullyOpaque (pixmap.cpp:292)
isFullyOpaque(p, ub) ==
  IF p.pixelFormat_.num_channels = 1 \/ p.pixelFormat_.num_channels = 3
  THEN Return(p, [k |-> "bool", v |-> TRUE])
  ELSE Then(ensureBuffered(p),
         LAMBDA p1 : isFullyOpaqueStatic(p1, p1.pixels_.mem, p1.xsize_,
                                         p1.ysize_, p1.pixelFormat_, ub))

\* addInterleavedChannel<T> (pixmap.cpp:39), called with memory to read
\* and to write: what it returns and what outSamples holds then.
Padded(stride, align, ub) ==
  IF Rem(stride, align, ub) > 0
  THEN Wrap(stride + SIZE_MAX + 1 + align - Rem(stride, align, ub))
  ELSE stride
addInterleavedChannel(inSamples, outSamples, outMax, init, format, xsize, ysize, index, ub) ==
  LET size == bytesPerSample(format.data_type)
      inChannels == format.num_channels
      inStride == Padded(size * inChannels * xsize, format.align, ub)
      outChannels == inChannels + 1
      outLastStride == size * outChannels * xsize
      outStride == Padded(outLastStride, format.align, ub)
      required == Wrap((ysize - 1) * outStride + outLastStride)
      \* where the sample c of the pixel at x, y is written and what is
      WrittenAt(y, x, c) == y * outStride + (x * outChannels + c) * size
      Written(y, x, c) ==
        IF c = index THEN init
        ELSE Read(inSamples,
                  y * inStride
                  + (x * inChannels + (IF c > index THEN c - 1 ELSE c)) * size,
                  format.data_type, ub)
      Writes(o) == { w \in (0 .. ysize - 1) \X (0 .. xsize - 1)
                                            \X (0 .. outChannels - 1) :
                       WrittenAt(w[1], w[2], w[3]) = o }
      LastWrite(o) == CHOOSE w \in Writes(o) :
                        \A v \in Writes(o) : v[1] <= w[1]
  IN IF required > outMax THEN [ret |-> 0, out |-> outSamples]
     ELSE [ret |-> required,
           out |-> [o \in 1 .. Len(outSamples) |->
                     IF Writes(o - 1) # {}
                     THEN Written(LastWrite(o - 1)[1], LastWrite(o - 1)[2],
                                  LastWrite(o - 1)[3])
                     ELSE IF \E j \in 1 .. size - 1 : Writes(o - 1 - j) # {}
                     THEN -1
                     ELSE outSamples[o]]]

\* addInterleavedChannel (pixmap.cpp:83)
Supported(format) ==
  format.data_type \in {"JXL_TYPE_UINT8", "JXL_TYPE_UINT16", "JXL_TYPE_FLOAT"}

\* Pixmap::addInterleavedAlpha (pixmap.cpp:238)
addInterleavedAlpha(p, ub) ==
  IF ~p.pixels_.has
  THEN Return([p EXCEPT !.pixelFormat_.num_channels =
                          IF @ = 1 \/ @ = 3 THEN @ + 1 ELSE @],
              [k |-> "bool", v |-> FALSE])
  ELSE IF p.pixelFormat_.num_channels = 2 \/ p.pixelFormat_.num_channels = 4
  THEN Return(p, [k |-> "bool", v |-> FALSE])
  ELSE
  Then(getFrameBufferSize(p, p.xsize_, p.ysize_,
                          [p.pixelFormat_ EXCEPT !.num_channels = @ + 1]),
    LAMBDA p1 :
      IF ~Supported(p.pixelFormat_) THEN Throw(p1, "JxltkError")
      ELSE IF p.pixelFormat_.align = 0 /\ ub = "crash"
      THEN Throw(p1, "Crash")
      ELSE IF addInterleavedChannel(
                p.pixels_.mem, Uninitialised(p1.ret.v), p1.ret.v,
                fullOpacity(p.pixelFormat_.data_type), p.pixelFormat_,
                p.xsize_, p.ysize_, p.pixelFormat_.num_channels, ub).ret
              # p1.ret.v
      THEN Throw(p1, "JxltkError")
      ELSE Return(
             [p1 EXCEPT
                !.pixelFormat_.num_channels = @ + 1,
                !.pixels_ =
                   PixelPtr(addInterleavedChannel(
                     p.pixels_.mem, Uninitialised(p1.ret.v), p1.ret.v,
                     fullOpacity(p.pixelFormat_.data_type), p.pixelFormat_,
                     p.xsize_, p.ysize_, p.pixelFormat_.num_channels,
                     ub).out)],
             [k |-> "bool", v |-> TRUE]))

\* ------------------------------------------------------- colour profiles
\* A double that holds an xy coordinate is the number of its billionths, one
\* that holds a gamma the number of its millionths.
Abs(x) == IF x < 0 THEN -x ELSE x
XY(x, y) == <<x, y>>

\* PRIMARIES_SRGB (color.cpp:19)
PRIMARIES_SRGB ==
  << XY(639998686, 330010138), XY(300003784, 600003357),
     XY(150002046, 59997204) >>
\* WP_D65, WP_E (a third, rounded) and WP_DCI (color.cpp:74)
WP_D65 == XY(312700000, 329000000)
WP_E == XY(333333333, 333333333)
WP_DCI == XY(314000000, 351000000)
\* maxerr (color.cpp:96) and the tolerance of gamma (color.cpp:164)
maxerr == 1
maxerrGamma == 1

\* getPrimariesXY (color.cpp:44): the three coordinates and the value
\* returned.
getPrimariesXY(enc) ==
  IF enc.primaries = "JXL_PRIMARIES_SRGB"
  THEN [ok |-> TRUE, rgb |-> PRIMARIES_SRGB]
  ELSE [ok |-> enc.primaries = "JXL_PRIMARIES_CUSTOM",
        rgb |-> <<enc.primaries_red_xy, enc.primaries_green_xy,
                  enc.primaries_blue_xy>>]

\* getGamma (color.cpp:59)
getGamma(enc) ==
  IF enc.transfer_function = "JXL_TRANSFER_FUNCTION_LINEAR"
  THEN [ok |-> TRUE, gamma |-> 1000000]
  ELSE IF enc.transfer_function = "JXL_TRANSFER_FUNCTION_SRGB"
  THEN [ok |-> FALSE, gamma |-> 454550]
  ELSE [ok |-> enc.transfer_function = "JXL_TRANSFER_FUNCTION_GAMMA",
        gamma |-> enc.gamma]

\* getWhitePointXY (color.cpp:78)
getWhitePointXY(enc) ==
  CASE enc.white_point = "JXL_WHITE_POINT_D65" -> [ok |-> TRUE, wp |-> WP_D65]
    [] enc.white_point = "JXL_WHITE_POINT_E" -> [ok |-> TRUE, wp |-> WP_E]
    [] enc.white_point = "JXL_WHITE_POINT_DCI" -> [ok |-> TRUE, wp |-> WP_DCI]
    [] OTHER -> [ok |-> enc.white_point = "JXL_WHITE_POINT_CUSTOM",
                 wp |-> enc.white_point_xy]

PowerLaw(enc) ==
  enc.transfer_function \in {"JXL_TRANSFER_FUNCTION_GAMMA",
                             "JXL_TRANSFER_FUNCTION_LINEAR"}

\* The four tests of encodedProfilesMatch (color.cpp:98), each TRUE when it
\* does not return false.
SpacesMatch(l, r) ==
  ~(\/ l.color_space # r.color_space
    \/ l.color_space = "JXL_COLOR_SPACE_UNKNOWN"
    \/ r.color_space = "JXL_COLOR_SPACE_UNKNOWN")
\* PrimariesMatch that derives the coordinates only when the left
\* primaries are custom.
PrimariesMatchLeftCustom(l, r) ==
  /\ ~(/\ l.primaries # r.primaries
       /\ l.primaries # "JXL_PRIMARIES_CUSTOM"
       /\ r.primaries # "JXL_PRIMARIES_CUSTOM")
  /\ l.primaries = "JXL_PRIMARIES_CUSTOM"
       => /\ getPrimariesXY(l).ok /\ getPrimariesXY(r).ok
          /\ \A i \in 1..3, j \in 1..2 :
               ~(Abs(getPrimariesXY(l).rgb[i][j]
                     - getPrimariesXY(r).rgb[i][j]) > maxerr)
PrimariesMatch(l, r) ==
  /\ ~(/\ l.primaries # r.primaries
       /\ l.primaries # "JXL_PRIMARIES_CUSTOM"
       /\ r.primaries # "JXL_PRIMARIES_CUSTOM")
  /\ l.primaries # r.primaries \/ l.primaries = "JXL_PRIMARIES_CUSTOM"
       => /\ getPrimariesXY(l).ok /\ getPrimariesXY(r).ok
          /\ \A i \in 1..3, j \in 1..2 :
               ~(Abs(getPrimariesXY(l).rgb[i][j]
                     - getPrimariesXY(r).rgb[i][j]) > maxerr)
TransferMatch(l, r) ==
  /\ ~(\/ l.transfer_function = "JXL_TRANSFER_FUNCTION_UNKNOWN"
       \/ r.transfer_function = "JXL_TRANSFER_FUNCTION_UNKNOWN")
  /\ IF PowerLaw(l) /\ PowerLaw(r)
     THEN /\ getGamma(l).ok /\ getGamma(r).ok
          /\ ~(Abs(getGamma(l).gamma - getGamma(r).gamma) > maxerrGamma)
     ELSE l.transfer_function = r.transfer_function
WhitePointsMatch(l, r) ==
  /\ ~(/\ l.white_point # r.white_point
       /\ l.white_point # "JXL_WHITE_POINT_CUSTOM"
       /\ r.white_point # "JXL_WHITE_POINT_CUSTOM")
  /\ l.white_point # r.white_point \/ l.white_point = "JXL_WHITE_POINT_CUSTOM"
       => /\ getWhitePointXY(l).ok /\ getWhitePointXY(r).ok
          /\ \A j \in 1..2 :
               ~(Abs(getWhitePointXY(l).wp[j]
                     - getWhitePointXY(r).wp[j]) > maxerr)

\* encodedProfilesMatch (color.cpp:98)
encodedProfilesMatch(left_color, right_color) ==
  /\ SpacesMatch(left_color, right_color)
  /\ PrimariesMatch(left_color, right_color)
  /\ TransferMatch(left_color, right_color)
  /\ WhitePointsMatch(left_color, right_color)

\* memcmp(a + from, b + from, n) == 0
SameBytes(a, b, from, n) == \A i \in from .. from + n - 1 : a[i + 1] = b[i + 1]

\* The parts of an ICC profile that colorProfilesMatch compares
\* (color.cpp:222).
IccEqual(leftIcc, rightIcc, size) ==
  /\ SameBytes(leftIcc, rightIcc, 0, 44)
  /\ SameBytes(leftIcc, rightIcc, 48, 16)
  /\ SameBytes(leftIcc, rightIcc, 68, 16)
  /\ SameBytes(leftIcc, rightIcc, 100, size - 100)

\* colorProfilesMatch that compares every byte of two ICC profiles.
colorProfilesMatchAllBytes(left, right) ==
  IF left.enc # <<>> /\ right.enc # <<>>
  THEN encodedProfilesMatch(left.enc[1], right.enc[1])
  ELSE /\ Len(left.icc) >= 128 /\ Len(left.icc) = Len(right.icc)
       /\ left.icc = right.icc

\* colorProfilesMatch (color.cpp:213).  Of a ColorProfile, enc is the
\* optional encoding (a sequence of none or one) and icc the bytes of
\* icc.data, icc.size of them.
colorProfilesMatch(left, right) ==
  IF left.enc # <<>> /\ right.enc # <<>>
  THEN encodedProfilesMatch(left.enc[1], right.enc[1])
  ELSE /\ Len(left.icc) >= 128 /\ Len(left.icc) = Len(right.icc)
       /\ IccEqual(left.icc, right.icc, Len(left.icc))

\* The profiles that are compared.  An encoding takes its primaries, its
\* transfer function and its white point each with the custom value that
\* goes with it.
Near(xy) == XY(xy[1] + 2 * maxerr, xy[2])
PrimariesChoices ==
  { <<"JXL_PRIMARIES_SRGB", Near(PRIMARIES_SRGB[1])>>,
    <<"JXL_PRIMARIES_CUSTOM", PRIMARIES_SRGB[1]>>,
    <<"JXL_PRIMARIES_CUSTOM", Near(PRIMARIES_SRGB[1])>>,
    <<"JXL_PRIMARIES_P3", PRIMARIES_SRGB[1]>> }
TransferChoices ==
  { <<"JXL_TRANSFER_FUNCTION_UNKNOWN", 1000000>>,
    <<"JXL_TRANSFER_FUNCTION_LINEAR", 1001000>>,
    <<"JXL_TRANSFER_FUNCTION_SRGB", 1000000>>,
    <<"JXL_TRANSFER_FUNCTION_GAMMA", 1000000>>,
    <<"JXL_TRANSFER_FUNCTION_GAMMA", 1001000>> }
WhitePointChoices ==
  { <<"JXL_WHITE_POINT_D65", Near(WP_D65)>>,
    <<"JXL_WHITE_POINT_CUSTOM", WP_D65>>,
    <<"JXL_WHITE_POINT_DCI", WP_D65>> }
Encodings ==
  { [color_space |-> cs,
     white_point |-> wp[1], white_point_xy |-> wp[2],
     primaries |-> pr[1], primaries_red_xy |-> pr[2],
     primaries_green_xy |-> PRIMARIES_SRGB[2],
     primaries_blue_xy |-> PRIMARIES_SRGB[3],
     transfer_function |-> tf[1], gamma |-> tf[2],
     rendering_intent |-> ri] :
      cs \in {"JXL_COLOR_SPACE_RGB", "JXL_COLOR_SPACE_GRAY",
              "JXL_COLOR_SPACE_UNKNOWN"},
      wp \in WhitePointChoices, pr \in PrimariesChoices,
      tf \in TransferChoices,
      ri \in {"JXL_RENDERING_INTENT_RELATIVE",
              "JXL_RENDERING_INTENT_SATURATION"} }
\* An ICC profile is zero but for the bytes at marks.
IccSizes == {0, 127, 128, 130}
IccOffsets == {0, 43, 44, 47, 48, 63, 64, 67, 68, 83, 84, 99, 100, 127, 129}
Icc(size, marks) == [i \in 1..size |-> IF i - 1 \in marks THEN 1 ELSE 0]
IccData ==
  { Icc(size, marks) :
      size \in IccSizes,
      marks \in { m \in SUBSET IccOffsets : Cardinality(m) <= MaxMarks } }
ColorProfiles ==
  { [enc |-> <<e>>, icc |-> <<>>] : e \in Encodings }
  \cup { [enc |-> <<>>, icc |-> bytes] : bytes \in IccData }

\* The two static functions, called with the sizes and the format that
\* last.args holds from the start; dec records what the call returned or
\* threw.
GetRowStride ==
  /\ mode = "size"
  /\ dec' = Return(Call(dec, "crash"),
                   [k |-> "size",
                    v |-> getRowStride(last.args[1], last.args[3]).stride])
  /\ last' = Last("getRowStride", last.args)
  /\ UNCHANGED <<ref, mode, fi, pixmap>>
GetFrameBufferSize ==
  /\ mode = "size"
  /\ dec' = getFrameBufferSize(Call(dec, "crash"), last.args[1],
                               last.args[2], last.args[3])
  /\ last' = Last("getFrameBufferSize", last.args)
  /\ UNCHANGED <<ref, mode, fi, pixmap>>
\* The formats of a Pixmap, the pixels it is given and the files it is
\* pointed at.
PixmapFormats ==
  [num_channels : 1..4,
   data_type : {"JXL_TYPE_UINT8", "JXL_TYPE_UINT16", "JXL_TYPE_FLOAT"},
   align : {0, 1, 4}]
\* Pixels whose alpha, if they have one, is opaque but for the pixels of
\* clear, and whose other samples all differ.
GivenSample(xsize, format, clear, y, x, c) ==
  IF format.num_channels \in {2, 4} /\ c = format.num_channels - 1
  THEN IF <<y, x>> \in clear THEN 0 ELSE fullOpacity(format.data_type)
  ELSE 2 + (y * xsize + x) * format.num_channels + c
GivenPixels(xsize, ysize, format, clear) ==
  Cells(xsize, ysize, format,
        LAMBDA y, x, c : GivenSample(xsize, format, clear, y, x, c))
PixmapFiles == {"layers", "bare"}

\* A call Q of the Pixmap.
OnPixmap(Q(_), op, args) ==
  /\ pixmap' = Q([pixmap EXCEPT !.err = "none", !.ret = NoRet])
  /\ last' = Last(op, args)
  /\ UNCHANGED <<dec, ref, mode, fi>>
\* A Pixmap is given its pixels once, and no call follows a crash.
Fresh == mode = "pixmap" /\ last.op = "new"
Usable == mode = "pixmap" /\ pixmap.err # "Crash"
SetPixelsCopy ==
  /\ Fresh
  /\ \E xsize \in 1..MaxPixSize, ysize \in 1..MaxPixSize,
     format \in PixmapFormats :
       \E clear \in { c \in SUBSET ((0 .. ysize - 1) \X (0 .. xsize - 1)) :
                        Cardinality(c) <= 1 } :
         OnPixmap(LAMBDA p : setPixelsCopy(p, xsize, ysize, format,
                               GivenPixels(xsize, ysize, format, clear)),
                  "setPixelsCopy", <<xsize, ysize, format, clear>>)
SetPixelsFile ==
  /\ Fresh
  /\ \E filename \in PixmapFiles, frameIdx \in 0..1,
        format \in PixmapFormats :
       OnPixmap(LAMBDA p : setPixelsFile(p, filename, frameIdx, format),
                "setPixelsFile", <<filename, frameIdx, format>>)
\* The decoder that is handed over has a file open, as merge's has
\* (common.h:398).
Opened ==
  [filename \in PixmapFiles |->
     Done(openFile(Call(Decoder0, "crash"), filename, {}, {}, 0))]
SetPixelsDecoder ==
  /\ Fresh
  /\ \E filename \in PixmapFiles, frameIdx \in 0..1,
        format \in PixmapFormats :
       OnPixmap(LAMBDA p : setPixelsDecoder(p, Opened[filename], frameIdx,
                                            format),
                "setPixelsDecoder", <<filename, frameIdx, format>>)
PixmapData ==
  /\ Usable
  /\ OnPixmap(LAMBDA p : data(p), "data", <<>>)
GetXsize ==
  /\ Usable
  /\ OnPixmap(LAMBDA p : getXsize(p), "getXsize", <<>>)
IsFullyOpaque ==
  /\ Usable
  /\ \E ub \in UBPixmap :
       OnPixmap(LAMBDA p : isFullyOpaque(p, ub), "isFullyOpaque", <<>>)
AddInterleavedAlpha ==
  /\ Usable
  /\ \E ub \in UBPixmap :
       OnPixmap(LAMBDA p : addInterleavedAlpha(p, ub), "addInterleavedAlpha",
                <<>>)
NextPixmap ==
  \/ SetPixelsCopy
  \/ SetPixelsFile
  \/ SetPixelsDecoder
  \/ PixmapData
  \/ GetXsize
  \/ IsFullyOpaque
  \/ AddInterleavedAlpha
InitPixmap ==
  /\ dec = Decoder0 /\ ref = Decoder0
  /\ last = [op |-> "new", args |-> <<>>, pre |-> Pre(Decoder0)]
  /\ fi = SIZE_MAX
  /\ pixmap = Pixmap0
  /\ mode = "pixmap"

\* colorProfilesMatch, called with the two profiles that last.args holds
\* from the start.
ColorProfilesMatch ==
  /\ mode = "match"
  /\ dec' = Return(Call(dec, "crash"),
                   [k |-> "bool",
                    v |-> colorProfilesMatch(last.args[1], last.args[2])])
  /\ last' = Last("colorProfilesMatch", last.args)
  /\ UNCHANGED <<ref, mode, fi, pixmap>>
NextMatch ==
  \/ ColorProfilesMatch
InitMatch ==
  /\ dec = Decoder0 /\ ref = Decoder0
  /\ \E left \in ColorProfiles, right \in ColorProfiles :
       last = [op |-> "new", args |-> <<left, right>>,
               pre |-> Pre(Decoder0)]
  /\ fi = SIZE_MAX
  /\ pixmap = Pixmap0
  /\ mode = "match"
NextSize ==
  \/ GetRowStride
  \/ GetFrameBufferSize
InitSize ==
  /\ dec = Decoder0 /\ ref = Decoder0
  /\ \E xsize \in 0..MaxXsize, ysize \in 0..MaxYsize,
        format \in PixelFormats :
       last = [op |-> "new", args |-> <<xsize, ysize, format>>,
               pre |-> Pre(Decoder0)]
  /\ fi = SIZE_MAX
  /\ pixmap = Pixmap0
  /\ mode = "size"

SetPreferredOutputColorProfile ==
  /\ Alive
  /\ \E colorEncoding \in {"", "srgb"}, iccData \in BOOLEAN :
       Query(LAMBDA d : setPreferredOutputColorProfile(d, colorEncoding,
                                                       iccData),
             "setPreferredOutputColorProfile", <<colorEncoding, iccData>>)
NextColor ==
  \/ Next
  \/ SetPreferredOutputColorProfile

\* ------------------------------------------------------------------ merge
\* A box type is the sequence of the bytes of its string.
toupper(c) == IF c >= 97 /\ c <= 122 THEN c - 32 ELSE c
Ascii(c) == c < 128
\* "ftyp", "jbrd", "brob", "jxl"
TypeFtyp == <<102, 116, 121, 112>>
TypeJbrd == <<106, 98, 114, 100>>
TypeBrob == <<98, 114, 111, 98>>
PrefixJxl == <<106, 120, 108>>
\* isReservedBoxType (common.cpp:20), of 4 bytes
isReservedBoxType(t) ==
  \/ toupper(t[1]) = 74 /\ toupper(t[2]) = 88 /\ toupper(t[3]) = 76
  \/ t = TypeFtyp
  \/ t = TypeJbrd

\* The types a configuration gives its boxes: "JXL", "jxl", "Jxl", "fty",
\* "jbr", "Exi" or an e with an acute accent and an x, followed by "p",
\* "d", "f", "l " or nothing.
CfgTypes ==
  { a \o b : a \in { <<74, 88, 76>>, PrefixJxl, <<74, 120, 108>>,
                      <<102, 116, 121>>, <<106, 98, 114>>,
                      <<69, 120, 105>>, <<195, 169, 120>> },
              b \in { <<112>>, <<100>>, <<102>>, <<108, 32>>, <<>> } }
CfgBoxes == [type : CfgTypes, compress : BOOLEAN]
CfgBoxLists ==
  UNION { [1..n -> CfgBoxes] : n \in 1..MaxCfgBoxes }

\* boxConfigFromJson (part_004:37) of an object with the keys type
\* and compress
boxConfigFromJson(d, box) ==
  IF Len(box.type) # 4 THEN Throw(d, "InvalidConfigError")
  ELSE Return(d, [k |-> "box", v |-> box])
\* The boxes of MergeConfig::fromJson (part_004:498): opts.boxes.
RECURSIVE boxesFromJson(_, _, _)
boxesFromJson(d, val, boxes) ==
  IF val = <<>> THEN Return(d, [k |-> "boxes", v |-> boxes])
  ELSE Then(boxConfigFromJson(d, Head(val)),
         LAMBDA d1 : boxesFromJson(d1, Tail(val), Append(boxes, d1.ret.v)))

\* JxlEncoderAddBox, once JxlEncoderUseBoxes was called (common.h:532) and
\* before the boxes are closed: what libjxl refuses.
JxlEncoderAddBox(type, compress) ==
  IF compress /\ ( \/ SubSeq(type, 1, 3) = PrefixJxl
                   \/ type = TypeJbrd
                   \/ type = TypeBrob )
  THEN "JXL_ENC_ERROR"
  ELSE "JXL_ENC_SUCCESS"
\* writeBox (common.h:263); written are the boxes of the output file.
writeBox(d, written, type, content, compress) ==
  IF JxlEncoderAddBox(type, compress) # "JXL_ENC_SUCCESS"
  THEN Throw(d, "JxltkError")
  ELSE Return(d, [k |-> "written",
                  v |-> Append(written, [type |-> type,
                                         content |-> content,
                                         compress |-> compress])])
\* merge's loop over mergeCfg.boxes (common.h:563), with empty boxDefaults
\* and boxes that name no file.
RECURSIVE writeBoxes(_, _)
writeBoxes(d, boxes) ==
  IF boxes = <<>> THEN d
  ELSE IF Len(Head(boxes).type) # 4 THEN Throw(d, "JxltkError")
  ELSE Then(writeBox(d, d.ret.v, Head(boxes).type, <<>>,
                     Head(boxes).compress),
         LAMBDA d1 : writeBoxes(d1, Tail(boxes)))

\* The 4 bytes of the types of the boxes of the files.
TypeBytes(t) ==
  CASE t = "JXL " -> <<74, 88, 76, 32>>
    [] t = "ftyp" -> TypeFtyp
    [] t = "jbrd" -> TypeJbrd
    [] t = "brob" -> TypeBrob
    [] t = "jxlc" -> <<106, 120, 108, 99>>
    [] t = "jxll" -> <<106, 120, 108, 108>>
    [] t = "Lzip" -> <<76, 122, 105, 112>>
    [] t = "xtra" -> <<120, 116, 114, 97>>

RECURSIVE NonReservedLoop(_, _, _, _)
\* The loop of getNonReservedBoxes (common.cpp:188)
NonReservedLoop(d, count, boxIdx, boxes) ==
  IF boxIdx >= count THEN Return(d, [k |-> "boxes", v |-> boxes])
  ELSE Then(getBoxInfo(d, boxIdx),
         LAMBDA d1 :
           NonReservedLoop(d1, count, boxIdx + 1,
             IF isReservedBoxType(TypeBytes(d1.ret.v.type)) THEN boxes
             ELSE Append(boxes, [first |-> boxIdx, second |-> d1.ret.v])))
\* getNonReservedBoxes (common.cpp:181)
getNonReservedBoxes(d) ==
  Then(boxCount(d), LAMBDA d1 : NonReservedLoop(d1, d1.ret.v, 0, <<>>))

RECURSIVE copyLoop(_, _, _, _)
\* merge's loop over the boxes of one input (common.h:596): the value
\* getBoxContent returns is not looked at, and compress, which says how
\* the output box is stored, is also passed as getBoxContent's decompress.
copyLoop(d, boxes, compress, written) ==
  IF boxes = <<>> THEN Return(d, [k |-> "written", v |-> written])
  ELSE
  Then(Then(getBoxContent(d, Head(boxes).first, -1, compress),
    LAMBDA d1 : writeBox(d1, written, TypeBytes(Head(boxes).second.type),
                         d1.ret.data, compress)),
    LAMBDA d2 : copyLoop(d2, Tail(boxes), compress, d2.ret.v))
\* merge's copy of the boxes of an input whose copyBoxes is true
\* (common.h:584), compress being boxDefaults.compress.
copyBoxes(d, compress) ==
  Then(getNonReservedBoxes(d),
    LAMBDA d1 : copyLoop(d1, d1.ret.v, compress, <<>>))

\* jxltk merge copies the boxes of the input it has opened.
CopyBoxes ==
  /\ Alive
  /\ Flag(dec, "IsOpen")
  /\ \E compress \in BOOLEAN :
       Query(LAMBDA d : copyBoxes(d, compress), "copyBoxes", <<compress>>)
NextCopy ==
  \/ Next
  \/ CopyBoxes

\* jxltk merge with a configuration file: the file is parsed, then merged.
FromJson ==
  /\ mode = "mergeboxes"
  /\ last.op = "new"
  /\ dec' = boxesFromJson(Call(dec, "crash"), last.args[1], <<>>)
  /\ last' = Last("fromJson", last.args)
  /\ UNCHANGED <<ref, mode, fi, pixmap>>
MergeBoxes ==
  /\ mode = "mergeboxes"
  /\ last.op = "fromJson" /\ Ok(dec)
  /\ dec' = writeBoxes(Return(Call(dec, "crash"),
                               [k |-> "written", v |-> <<>>]),
                        dec.ret.v)
  /\ last' = Last("merge", last.args)
  /\ UNCHANGED <<ref, mode, fi, pixmap>>
NextMergeBoxes ==
  \/ FromJson
  \/ MergeBoxes
InitMergeBoxes ==
  /\ dec = Decoder0 /\ ref = Decoder0
  /\ \E boxes \in CfgBoxLists :
       last = [op |-> "new", args |-> <<boxes>>, pre |-> Pre(Decoder0)]
  /\ fi = SIZE_MAX
  /\ pixmap = Pixmap0
  /\ mode = "mergeboxes"

\* uint32_t has 8 bits here, and an int32_t lies in -128 .. 127; UINT32_MAX
\* is the largest uint32_t.
UINT32_MAX == 255
\* The sum of an int32_t and a uint32_t is the sum of two uint32_t.
AsUint32(n) == (n + UINT32_MAX + 1) % (UINT32_MAX + 1)
\* The frames of a merge: the offset of the frame's configuration, none or
\* one, and the size that the frame's Pixmap reports.
CfgOffsets == {<<>>} \cup { <<<<x0, y0>>>> : x0 \in {-3, -1, 0, 2},
                                            y0 \in {-3, 0} }
CfgFrames == [offset : CfgOffsets, xsize : 1..2, ysize : 1..2]
CfgFrameLists ==
  UNION { [1..n -> CfgFrames] : n \in 1..MaxCfgFrames }
\* merge's loop over the inputs (common.h:486) for a canvas that starts as
\* encInfo and is sized automatically.
RECURSIVE autoSize(_, _)
autoSize(encInfo, frames) ==
  IF frames = <<>> THEN encInfo
  ELSE LET optOffset == Head(frames).offset
           cropX0 == IF optOffset # <<>> THEN optOffset[1][1] ELSE 0
           cropY0 == IF optOffset # <<>> THEN optOffset[1][2] ELSE 0
       IN autoSize([xsize |-> Max(encInfo.xsize,
                                   AsUint32(cropX0 + Head(frames).xsize)),
                    ysize |-> Max(encInfo.ysize,
                                   AsUint32(cropY0 + Head(frames).ysize))],
                   Tail(frames))
\* The canvas of merge (common.h:333, 494) for a configuration that gives
\* xsize and ysize, or gives neither.
canvas(xsize, ysize, frames) ==
  IF xsize = 0 THEN autoSize([xsize |-> xsize, ysize |-> ysize], frames)
  ELSE [xsize |-> xsize, ysize |-> ysize]
MergeCanvas ==
  /\ mode = "canvas"
  /\ last.op = "new"
  /\ dec' = Return(Call(dec, "crash"),
                   [k |-> "canvas",
                    v |-> canvas(last.args[1], last.args[2], last.args[3])])
  /\ last' = Last("merge", last.args)
  /\ UNCHANGED <<ref, mode, fi, pixmap>>
NextCanvas ==
  \/ MergeCanvas
InitCanvas ==
  /\ dec = Decoder0 /\ ref = Decoder0
  /\ \E size \in {0, 2}, frames \in CfgFrameLists :
       last = [op |-> "new", args |-> <<size, size, frames>>,
               pre |-> Pre(Decoder0)]
  /\ fi = SIZE_MAX
  /\ pixmap = Pixmap0
  /\ mode = "canvas"

InitMode(m) ==
  dec = New(m) /\ ref = Decoder0
  /\ last = [op |-> "new", args |-> <<>>, pre |-> Pre(Decoder0)]
  /\ fi = SIZE_MAX
  /\ pixmap = Pixmap0
  /\ mode = m
SpecFrames == InitMode("frames") /\ [][Next]_vars
SpecBoxes == InitMode("boxes") /\ [][Next]_vars
SpecBuffer == InitMode("buffer") /\ [][Next]_vars
SpecHints == InitMode("hints") /\ [][Next]_vars
SpecClosed == InitMode("closed") /\ [][Next]_vars
SpecReopen == InitMode("reopen") /\ [][Next]_vars
SpecErrors == InitMode("errors") /\ [][Next]_vars
SpecColor == InitMode("color") /\ [][NextColor]_vars
SpecNoBrotli == InitMode("nobrotli") /\ [][Next]_vars
SpecIter == InitMode("iter") /\ [][NextIter]_vars
SpecJpeg == InitMode("jpeg") /\ [][NextJpeg]_vars
SpecPixels == InitMode("pixels") /\ [][NextPixels]_vars
SpecCopy == InitMode("copy") /\ [][NextCopy]_vars
SpecSize == InitSize /\ [][NextSize]_vars
SpecMatch == InitMatch /\ [][NextMatch]_vars
SpecPixmap == InitPixmap /\ [][NextPixmap]_vars
SpecMergeBoxes == InitMergeBoxes /\ [][NextMergeBoxes]_vars
SpecCanvas == InitCanvas /\ [][NextCanvas]_vars

\* ------------------------------------------------------------ properties
\* The record of frame number index that reading the file in order gives.
TrueFrameInfo(f, coalescing, index) ==
  LET p == FramePos(f, coalescing)[index + 1]
  IN [header |-> [id |-> f.bytes[p].v, is_last |-> "last" \in f.bytes[p].at],
      ecBlendInfo |-> IF coalescing THEN 0 ELSE f.nec]

\* Undefined behaviour is not reached by a decoder that has a file open.
NoCrashWhileOpen == dec.err = "Crash" => ~last.pre.open

\* The codec of an open decoder is never handed anything but the file's
\* next bytes.
FedInOrder == Flag(dec, "IsOpen") => ~dec.dec_.bad

\* What getFrameInfo(n) gives on decoder d after frames 0 .. n-1 were asked
\* for, one after the other.
RECURSIVE ReadInOrder(_, _, _)
ReadInOrder(d, i, n) ==
  LET d1 == getFrameInfo(Call(d, "crash"), i)
  IN IF i >= n \/ ~Ok(d1) THEN d1 ELSE ReadInOrder(Done(d1), i + 1, n)

\* The same, on a decoder that was just opened on the bytes of file src.
InOrderFrameInfo(src, coalescing, n) ==
  ReadInOrder(openMemory(Decoder0, src,
                         IF coalescing THEN {} ELSE {"NoCoalesce"}, {}),
              0, n).ret

\* C1: getFrameInfo(i), called in any order and with frame-count, box and
\* pixel calls in between, returns the record of frame i that reading the
\* frames in order 0, 1, 2, ... on a fresh decoder gives, which is the
\* record of the file's frame i.
C1_FrameInfoAnyOrder ==
  (last.op = "getFrameInfo" /\ Ok(dec)) =>
    /\ last.args[1] < TrueFrameCount(SrcFile(dec), Flag(dec, "IsCoalescing"))
    /\ dec.ret = InOrderFrameInfo(dec.src, Flag(dec, "IsCoalescing"),
                                  last.args[1])
    /\ dec.ret.v = TrueFrameInfo(SrcFile(dec), Flag(dec, "IsCoalescing"),
                                 last.args[1])

\* C1 happens: a frame record is returned by a call that found the decoder
\* rewound, with fewer records cached than the index asked for, so that
\* it had to skip the cached frames and read on.
C1_Witness ==
  /\ last.op = "getFrameInfo" /\ Ok(dec)
  /\ last.pre.next < last.pre.frames
  /\ last.pre.frames <= last.args[1]

\* C3 as stated: asking for a frame at an index that is not less than the
\* file's frame count fails with IndexOutOfRange, whether or not the count
\* was known when the call was made.
C3_PastEndIsIndexOutOfRange ==
  (/\ last.op \in {"getFrameInfo", "getFramePixels"}
   /\ last.pre.open
   /\ last.args[1] >= TrueFrameCount(SrcFile(dec), Flag(dec, "IsCoalescing")))
  => dec.err = "IndexOutOfRange"

\* C2 as stated: whatever the buffer cap and the kind of source, a call
\* that returns a result returns what the same call returns on a decoder
\* that was opened from memory on the same bytes and was asked the same
\* calls; and the codec is handed the file's bytes in order.
C2_BufferTransparent ==
  /\ FedInOrder
  /\ (mode = "buffer" /\ Ok(dec) /\ dec.ret # NoRet) =>
        (Ok(ref) /\ dec.ret = ref.ret)

\* The calls that leave the same file open.
SameFile == last'.op \notin {"open", "close"}

C5_HintsNeverChangeResults ==
  (mode = "hints" /\ last.op # "new") =>
     (dec.err = ref.err /\ dec.ret = ref.ret)

\* The level getCodestreamLevel has to report for file f: the payload byte
\* of the first jxll box at index 2 or later, -1 without one or without
\* a container.
TrueLevel(f) ==
  LET at == { i \in 3..TrueBoxCount(f) : f.bytes[BoxPos(f)[i]].type = "jxll" }
  IN IF f.kind # "container" \/ at = {} THEN -1
     ELSE f.bytes[BoxPos(f)[CHOOSE i \in at : \A j \in at : i <= j] + 1].v

\* C6 as stated: on an open decoder getCodestreamLevel returns the file's
\* level, whatever hints the file was opened with and wherever the decoder
\* stands.
C6_LevelOfJxllBox ==
  (last.op = "getCodestreamLevel" /\ last.pre.open) =>
     (Ok(dec) /\ dec.ret = [k |-> "level", v |-> TrueLevel(SrcFile(dec))])

\* The 1-based position of the header of box number index of the file
\* that dec has open.
HeaderOf(index) == BoxPos(SrcFile(dec))[index + 1]
IsBrob(index) ==
  /\ index < TrueBoxCount(SrcFile(dec))
  /\ "brob" \in SrcFile(dec).bytes[HeaderOf(index)].at

\* C7 as stated: getBoxContent of a brob box into a vector, with no limit,
\* returns true and delivers the whole payload: the decompressed payload
\* of the inner box with decompress, the stored payload without.
C7_BrobContentBothModes ==
  (/\ last.op = "getBoxContent" /\ last.pre.open
   /\ IsBrob(last.args[1]) /\ last.args[2] = -1)
  => /\ Ok(dec) /\ dec.ret.ok
     /\ dec.ret.data = TrueBoxContent(SrcFile(dec), HeaderOf(last.args[1]),
                                      last.args[3])

\* C8 as stated: getBoxContent of the stored payload of a box, into a
\* vector or into memory, raises no error, returns false exactly when the
\* payload is longer than the cap, and delivers the payload, cut at the
\* cap; whatever the input buffer's refills.
C8_FalseOnlyWhenTruncated ==
  (/\ last.op \in {"getBoxContent", "getBoxContentPtr"} /\ last.pre.open
   /\ last.args[1] < TrueBoxCount(SrcFile(dec)) /\ ~last.args[3])
  => LET content == TrueBoxContent(SrcFile(dec), HeaderOf(last.args[1]),
                                   FALSE)
         cap == IF last.args[2] < 0 THEN SIZE_MAX ELSE last.args[2]
     IN /\ Ok(dec)
        /\ dec.ret.ok = (Len(content) <= cap)
        /\ dec.ret.data = Take(content, cap)

\* The queries, as opposed to open and close.
IsQuery(op) == op \notin {"new", "open", "close"}
\* Everything a call may have an effect on.
Effects(d) == [d EXCEPT !.err = "none", !.ret = NoRet]

\* C9 as stated: a query on a decoder that has no file open (never opened,
\* closed, or after an open that failed) fails with UsageError, of which
\* IndexOutOfRange is a kind, and changes nothing.
C9_ClosedQueriesOnlyFail ==
  [][(IsQuery(last'.op) /\ ~Flag(dec, "IsOpen")) =>
       /\ dec'.err \in {"UsageError", "IndexOutOfRange"}
       /\ Effects(dec') = Effects(dec)]_vars

\* C10 as stated: once a decoder is opened on a new source while it has a
\* file open, nothing of the previous file is left: every query ends as it
\* ends on a decoder that never held another file, was opened the same
\* way, and was asked the same queries since.
C10_ReopenDiscardsPreviousFile ==
  (mode = "reopen" /\ IsQuery(last.op) /\ last.pre.open) =>
     (dec.err = ref.err /\ dec.ret = ref.ret)

\* C11: a call that has to go back to the start of the file when the buffer
\* no longer starts there, on a stream that cannot seek to the position
\* saved at open, fails with NotSeekableError.
C11_RewindWithoutSeekIsNotSeekable ==
  dec.seekFailed /\ dec.codecErrors = 0 => dec.err = "NotSeekableError"

\* C12: when the codec returns JXL_DEC_ERROR during a call on an open
\* decoder, the call fails with ReadError after exactly one rewind made to
\* recover, and the call made after it returns.
C12_CodecErrorSurfacesAndLeavesUsable ==
  [][/\ last'.pre.open /\ dec'.codecErrors > 0
          => dec'.err = "ReadError" /\ dec'.errRewinds = 1
     /\ last.pre.open /\ dec.codecErrors > 0 => dec'.err \notin Gone]_vars

\* C13: whenever the codec asks for more input having consumed nothing of
\* the non-empty window it was handed, the call fails with ReadError and
\* the buffer is not refilled, whether the buffer can still grow or not.
C13_ZeroProgressFails ==
  dec.zeroProgress # "no"
    => dec.zeroProgress = "thrown" /\ dec.err = "ReadError"

\* The buffer holds every byte of the file that is open.
AllInMemory(d) ==
  /\ Flag(d, "IsOpen")
  /\ d.inBufferOffset_ = 0
  /\ Window(d, 0, d.inBufferLength_) = [k \in 1..FileLen(SrcFile(d)) |-> k]

\* C14: jxlIsFullyBuffered returns true exactly when every byte of the
\* file that is open is in memory; it returns false when no file is open
\* or the buffer limit is smaller than the file.
C14_FullyBufferedIffAllInMemory ==
  last.op = "jxlIsFullyBuffered" /\ Ok(dec)
    => dec.ret = [k |-> "bool", v |-> AllInMemory(dec)]

\* C15: on a decoder that has a valid file open, frameCount returns the
\* number of frames of the file (for the coalescing chosen at open) on
\* every call, whatever was called before, and getFrameInfo(i) succeeds
\* for exactly the indices below that number.
C15_FrameCountIsStable ==
  LET n == TrueFrameCount(SrcFile(dec), Flag(dec, "IsCoalescing"))
  IN /\ last.op = "frameCount" /\ last.pre.open
          => Ok(dec) /\ dec.ret = [k |-> "count", v |-> n]
     /\ last.op = "getFrameInfo" /\ last.pre.open
          => (Ok(dec) <=> last.args[1] < n)

\* C15 happens: frameCount is called when the count is not yet known, some
\* frame records are cached and the decoder stands before them, so that it
\* has to skip them and count on; the file has three frames.
C15_Witness ==
  /\ last.op = "frameCount" /\ Ok(dec)
  /\ last.pre.open /\ ~last.pre.seenAllFrames
  /\ last.pre.frames > 0 /\ last.pre.next < last.pre.frames
  /\ dec.ret = [k |-> "count", v |-> 3]

\* The output (data) colour profile the decoder has cached.
DataProfile(d) ==
  [enc |-> d.dataColorEnc_, icc |-> d.dataIcc_,
   got |-> Flag(d, "GotDataColorEnc")]

\* C16: a getFramePixels call that returns pixels leaves DecodedSomePixels
\* set; the flag stays set through every call but open and close; and
\* while it is set, setPreferredOutputColorProfile throws UsageError and
\* leaves the cached data profile as it was.  So from the first pixels
\* decoded until the decoder is closed or reopened, every such call is
\* refused.
C16_NoProfileChangeAfterPixels ==
  [][/\ last'.op = "getFramePixels" /\ Ok(dec')
          => Flag(dec', "DecodedSomePixels")
     /\ Flag(dec, "DecodedSomePixels") /\ last'.op \notin {"open", "close"}
          => Flag(dec', "DecodedSomePixels")
     /\ Flag(dec, "DecodedSomePixels")
          /\ last'.op = "setPreferredOutputColorProfile"
          => /\ dec'.err = "UsageError"
             /\ DataProfile(dec') = DataProfile(dec)]_vars

\* C16 happens: an encoding the codec could deliver (the pixels are XYB) is
\* asked for with valid arguments on an open decoder, after pixels were
\* decoded and other calls were made, and is refused.
C16_Witness ==
  /\ last.op = "setPreferredOutputColorProfile"
  /\ last.args = <<"srgb", FALSE>>
  /\ last.pre.open /\ SrcFile(dec).xyb
  /\ Flag(dec, "DecodedSomePixels") /\ dec.status_ # JXL_DEC_FULL_IMAGE
  /\ dec.err = "UsageError"

\* C17: with a codec library built without Brotli, asking for the content
\* of a compressed box with decompress = true throws NoBrotliError, from
\* the getBoxContent that fills a vector as from the one that fills the
\* caller's memory.
C17_NoBrotliBothForms ==
  (/\ last.op \in {"getBoxContent", "getBoxContentPtr"}
   /\ last.pre.open /\ ~dec.brotli
   /\ IsBrob(last.args[1]) /\ last.args[3])
  => dec.err = "NoBrotliError"

\* The index_ of an iterator that stood at from and was moved on by count,
\* over n frames.
MovedOn(from, count, n) ==
  IF from = SIZE_MAX \/ from + count >= n THEN SIZE_MAX ELSE from + count

\* C18: on a decoder that has a file of n frames open, begin() stands at
\* frame 0 (at end() when n = 0); ++ and += move an iterator on by one and
\* by count, to end() from the last frame on, and leave one that equals
\* end() equal to end(); and whatever else is called in between, an
\* iterator that does not equal end() stands at a frame below n whose
\* cached record, which dereferencing gives, is the record getFrameInfo
\* returns for that index.
C18_IteratorWalksTheFrames ==
  [][Flag(dec, "IsOpen") =>
       LET n == TrueFrameCount(SrcFile(dec), Flag(dec, "IsCoalescing"))
       IN /\ last'.op = "begin" => Ok(dec') /\ fi' = MovedOn(0, 0, n)
          /\ last'.op = "increment"
               => Ok(dec') /\ fi' = MovedOn(fi, 1, n)
          /\ last'.op = "advance" /\ last'.args[2] >= 0
               => Ok(dec') /\ fi' = MovedOn(fi, last'.args[2], n)
          /\ fi' # SIZE_MAX /\ Flag(dec', "IsOpen")
               => /\ fi' < n /\ fi' < Len(dec'.frames_)
                  /\ getFrameInfo(Call(dec', "crash"), fi').ret
                       = [k |-> "rec", v |-> dec'.frames_[fi' + 1]]]_vars

\* The third increment of an iterator over the three layers of a file read
\* without coalescing has made it equal to end().
C18_Witness ==
  /\ Flag(dec, "IsOpen") /\ ~Flag(dec, "IsCoalescing")
  /\ last.op = "increment" /\ last.args = <<2>>
  /\ Len(dec.frames_) = 3
  /\ fi = SIZE_MAX

\* The exact numbers of bytes, in the integers: of a row's pixels, of a
\* row with its padding, of a frame whose last row is not padded, and of a
\* frame whose rows are all padded.
ExactRowBytes(xsize, format) ==
  xsize * format.num_channels * bytesPerSample(format.data_type)
ExactRowStride(xsize, format) ==
  LET used == ExactRowBytes(xsize, format)
  IN IF format.align > 1
     THEN ((used + format.align - 1) \div format.align) * format.align
     ELSE used
ExactBufferSize(xsize, ysize, format) ==
  ExactRowStride(xsize, format) * (ysize - 1) + ExactRowBytes(xsize, format)
ExactPaddedSize(xsize, ysize, format) ==
  ExactRowStride(xsize, format) * ysize
\* The sizes and the format of the call that last records.
Xsize == last.args[1]
Ysize == last.args[2]
Format == last.args[3]

\* C19: getRowStride returns 0 whenever the exact stride does not fit
\* size_t and never a value other than 0 or the exact stride;
\* getFrameBufferSize throws whenever the exact size with its padding does
\* not fit size_t and never returns a value other than the exact size.
C19_NoWrappedSize ==
  /\ last.op = "getRowStride"
       => /\ ExactRowStride(Xsize, Format) > SIZE_MAX => dec.ret.v = 0
          /\ dec.ret.v \in {0, ExactRowStride(Xsize, Format)}
  /\ last.op = "getFrameBufferSize"
       => /\ ExactPaddedSize(Xsize, Ysize, Format) > SIZE_MAX
               => dec.err = "JxlazyException"
          /\ Ok(dec) => dec.ret.v = ExactBufferSize(Xsize, Ysize, Format)

Left == last.args[1]
Right == last.args[2]
Matched == dec.ret.v
IsEncoded(p) == p.enc # <<>>
IsIcc(p) == p.enc = <<>> /\ Len(p.icc) > 0
\* A profile that can match one: an encoding of a known colour space and a
\* known transfer function, or an ICC profile of 128 bytes at least.
Comparable(p) ==
  IF IsEncoded(p)
  THEN /\ p.enc[1].color_space # "JXL_COLOR_SPACE_UNKNOWN"
       /\ p.enc[1].transfer_function # "JXL_TRANSFER_FUNCTION_UNKNOWN"
  ELSE Len(p.icc) >= 128

Skipped == (44..47) \cup (64..67) \cup (84..99)
SameButSkipped(a, b) ==
  /\ Len(a) = Len(b)
  /\ \A i \in 0 .. Len(a) - 1 : i \notin Skipped => a[i + 1] = b[i + 1]
SameButIntent(e, f) == [e EXCEPT !.rendering_intent = f.rendering_intent] = f

FromFile(p) ==
  data(setPixelsDecoder([p EXCEPT !.err = "none", !.ret = NoRet],
                        Opened[p.filename_], p.decoderFrameIdx_,
                        p.pixelFormat_))
Configured(p) == p.filename_ # ""
Called(op) == last'.op = op

\* C23: a Pixmap configured from a file path decodes nothing when it is
\* configured; the first access that needs its width or its pixels opens
\* the named file on a Decoder and buffers the frame asked for, and every
\* later access sees those same pixels.
C23_FileIsDecodedOnFirstAccess ==
  [][ /\ Called("setPixelsFile")
           => /\ ~pixmap'.pixels_.has
              /\ \A i \in 1 .. Len(pixmap'.decoder_) :
                   ~Flag(pixmap'.decoder_[i], "IsOpen")
      /\ Called("getXsize") /\ Configured(pixmap) /\ Ok(FromFile(pixmap))
           => /\ Ok(pixmap')
              /\ pixmap'.ret = [k |-> "size", v |-> FromFile(pixmap).xsize_]
      /\ Called("data") /\ Configured(pixmap) /\ Ok(FromFile(pixmap))
           => /\ Ok(pixmap')
              /\ pixmap'.decoder_ # <<>>
              /\ pixmap'.decoder_[1].src = pixmap.filename_
              /\ pixmap'.pixels_ = FromFile(pixmap).pixels_
              /\ pixmap'.ret = FromFile(pixmap).ret
    ]_vars

\* The sample of channel c of the pixel at x, y in memory laid out as
\* format says.
SampleAt(mem, xsize, format, y, x, c) ==
  mem[y * getRowStride(xsize, format).stride
      + (x * format.num_channels + c) * bytesPerSample(format.data_type) + 1]
Pixels(p) == (0 .. p.ysize_ - 1) \X (0 .. p.xsize_ - 1)
HasAlpha(format) == format.num_channels \in {2, 4}
WithAlpha(format) == [format EXCEPT !.num_channels = @ + 1]

\* C24: addInterleavedAlpha returns true exactly when the Pixmap had 1 or 3
\* channels, and then every pixel keeps its samples, followed by an opaque
\* alpha sample, in rows laid out by the format's alignment (0 and 1
\* included), whether the pixels were buffered already or are buffered
\* later; with 2 or 4 channels it returns false and changes nothing.
C24_AlphaIsAddedToEveryPixel ==
  [][ Called("addInterleavedAlpha") /\ Ok(pixmap)
        => /\ Ok(pixmap')
           /\ pixmap'.ret = [k |-> "bool",
                             v |-> ~HasAlpha(pixmap.pixelFormat_)]
           /\ HasAlpha(pixmap.pixelFormat_)
                => pixmap' = [pixmap EXCEPT !.ret = pixmap'.ret]
           /\ ~HasAlpha(pixmap.pixelFormat_)
                => /\ pixmap'.pixelFormat_ = WithAlpha(pixmap.pixelFormat_)
                   /\ pixmap'.pixels_.has = pixmap.pixels_.has
                   /\ pixmap.pixels_.has
                        => /\ Len(pixmap'.pixels_.mem)
                                = getFrameBufferSize(
                                    pixmap, pixmap.xsize_, pixmap.ysize_,
                                    pixmap'.pixelFormat_).ret.v
                           /\ \A px \in Pixels(pixmap) :
                                \A c \in 0 .. pixmap.pixelFormat_.num_channels :
                                  SampleAt(pixmap'.pixels_.mem, pixmap.xsize_,
                                           pixmap'.pixelFormat_,
                                           px[1], px[2], c)
                                  = IF c = pixmap.pixelFormat_.num_channels
                                    THEN fullOpacity(
                                           pixmap.pixelFormat_.data_type)
                                    ELSE SampleAt(pixmap.pixels_.mem,
                                                  pixmap.xsize_,
                                                  pixmap.pixelFormat_,
                                                  px[1], px[2], c)
    ]_vars

\* C25: isFullyOpaque returns true iff no pixel has an alpha sample other
\* than the maximum, for frames of 2 and of 4 channels, of each sample type
\* and row alignment, and reads nothing but the alpha sample of each pixel
\* of the buffer; for 1 and 3 channels it returns true.
C25_OpaqueIffEveryAlphaIsMax ==
  [][ Called("isFullyOpaque") /\ pixmap.pixels_.has /\ Ok(pixmap)
        => /\ Ok(pixmap')
           /\ pixmap'.ret
                = [k |-> "bool",
                   v |-> HasAlpha(pixmap.pixelFormat_)
                           => \A px \in Pixels(pixmap) :
                                SampleAt(pixmap.pixels_.mem, pixmap.xsize_,
                                         pixmap.pixelFormat_, px[1], px[2],
                                         pixmap.pixelFormat_.num_channels - 1)
                                = fullOpacity(pixmap.pixelFormat_.data_type)]
    ]_vars


\* ------------------------------------------------------- merge properties
CfgBoxesOf == last.args[1]
ValidType(t) ==
  /\ Len(t) = 4
  /\ \A i \in 1..4 : Ascii(t[i])
  /\ ~isReservedBoxType(t)
\* The types of the boxes that the output file holds.
WrittenTypes ==
  IF last.op = "merge" /\ dec.ret.k = "written"
  THEN { dec.ret.v[i].type : i \in 1 .. Len(dec.ret.v) }
  ELSE {}

\* C26: a box of the merge configuration whose type is not exactly 4 bytes
\* of ASCII, or begins with "JXL" in any case, or is "ftyp" or "jbrd", is
\* rejected, and never written to the output file.
C26_BadBoxTypeIsRejected ==
  \A i \in 1 .. Len(CfgBoxesOf) :
    ~ValidType(CfgBoxesOf[i].type)
      => /\ last.op = "fromJson" => ~Ok(dec)
         /\ CfgBoxesOf[i].type \notin WrittenTypes


CfgFramesOf == last.args[3]
OffsetOf(frame) == IF frame.offset = <<>> THEN <<0, 0>> ELSE frame.offset[1]
\* How far a frame reaches on the positive part of each axis.
ReachX(frame) == Max(0, OffsetOf(frame)[1] + frame.xsize)
ReachY(frame) == Max(0, OffsetOf(frame)[2] + frame.ysize)

\* C27: with no canvas size in the merge configuration the canvas is as
\* wide as the largest x0 + xsize of a frame and as high as the largest
\* y0 + ysize, on the positive axes only: a frame at a negative offset
\* counts for the part of it at coordinates that are not negative.
C27_CanvasFitsPositiveAxes ==
  last.op = "merge" /\ mode = "canvas" /\ last.args[1] = 0
    => /\ \A i \in 1 .. Len(CfgFramesOf) :
            /\ dec.ret.v.xsize >= ReachX(CfgFramesOf[i])
            /\ dec.ret.v.ysize >= ReachY(CfgFramesOf[i])
       /\ \E i \in 1 .. Len(CfgFramesOf) :
            dec.ret.v.xsize = ReachX(CfgFramesOf[i])
       /\ \E i \in 1 .. Len(CfgFramesOf) :
            dec.ret.v.ysize = ReachY(CfgFramesOf[i])


\* ------------------------------------------------------ refill properties
\* The last call refilled the buffer from its stream, and the buffer grew.
\* (Without a stream the read of the refill is undefined behaviour.)
Refilled == dec.refill # <<>> /\ dec.stream.has
\* What a refill that grows the buffer does in any case: the capacity is
\* doubled up to the maximum, the bytes not consumed stay where they are,
\* and the bytes read from the source follow them.
GrowsAndAppends(r) ==
  /\ r.newCap = Min(r.max, 2 * r.cap)
  /\ r.newLen >= r.len
  /\ \A k \in r.len - r.unprocessed + 1 .. r.len : r.newData[k] = r.data[k]
  /\ \A k \in r.len + 1 .. r.newLen : r.newData[k] = r.newOffset + k

\* C28: a refill with a capacity below the maximum makes the capacity
\* min(max, 2 * cap), keeps the bytes not consumed in place, appends bytes
\* of the source, sets decOffset to 0 and hands the codec the bytes from 0
\* to len.
C28_RefillHandsWholeBuffer ==
  Refilled
    => /\ GrowsAndAppends(dec.refill[1])
       /\ dec.refill[1].newDecOffset = 0
       /\ dec.refill[1].input = dec.refill[1].newData

\* C28, amended: such a refill keeps every byte of the buffer in place, sets
\* decOffset to where the bytes not consumed begin, len - unprocessed, and
\* hands the codec the bytes from decOffset to len.
C28_RefillHandsUnconsumedBytes ==
  Refilled
    => /\ GrowsAndAppends(dec.refill[1])
       /\ \A k \in 1 .. dec.refill[1].len :
            dec.refill[1].newData[k] = dec.refill[1].data[k]
       /\ dec.refill[1].newOffset = 0
       /\ dec.refill[1].newDecOffset
            = dec.refill[1].len - dec.refill[1].unprocessed
       /\ dec.refill[1].input
            = SubSeq(dec.refill[1].newData, dec.refill[1].newDecOffset + 1,
                     dec.refill[1].newLen)

\* A refill has doubled the capacity to less than the maximum, kept bytes
\* not consumed yet behind consumed ones, and read more.
C28_Witness ==
  /\ Refilled
  /\ dec.refill[1].newCap < dec.refill[1].max
  /\ dec.refill[1].unprocessed > 0
  /\ dec.refill[1].unprocessed < dec.refill[1].len
  /\ dec.refill[1].newLen > dec.refill[1].len


\* ------------------------------------------------- state flag properties
\* The state that an open, or a call on a decoder with a file open, has
\* left (any other call may have run into undefined behaviour).
Defined == last.op = "open" \/ last.pre.open
\* The whole file lies in the input buffer, from the start of the file on.
WholeFileInBuffer(d) ==
  /\ d.inBufferOffset_ = 0
  /\ Window(d, 0, d.inBufferLength_) = [k \in 1..FileLen(SrcFile(d)) |-> k]

\* C29: in every state in which WholeFileBuffered is set, the whole file
\* lies in the input buffer from offset 0 on and the codec has been told
\* that no more input comes; so after a rewind, and so after an open that
\* failed.
C29_WholeFileBufferedIsFedWhole ==
  Defined /\ Flag(dec, "WholeFileBuffered")
    => WholeFileInBuffer(dec) /\ dec.dec_.closed

\* The JPEG reconstructions the file truly holds.
TrueJpegCount(f) ==
  Cardinality({ p \in 1..FileLen(f) : f.bytes[p].t = "jbrd" })
\* What decoder d has cached of each kind it claims to have seen all of is
\* what the file holds.
SeenAllIsTrue(d) ==
  /\ Flag(d, "SeenAllFrames")
       => Len(d.frames_)
            = TrueFrameCount(SrcFile(d), Flag(d, "IsCoalescing"))
  /\ Flag(d, "SeenAllBoxes") => Len(d.boxes_) = TrueBoxCount(SrcFile(d))
  /\ Flag(d, "SeenAllJpeg") => d.jpegCount_ = TrueJpegCount(SrcFile(d))

\* Of every kind that decoder d claimed to have seen all of, e holds the
\* same list: the same frame records, the same boxes in the same order (the
\* size of an unbounded box is filled in by reading it) and the same count.
SeenAllIsFinal(d, e) ==
  /\ Flag(d, "SeenAllFrames") /\ Flag(e, "SeenAllFrames")
       => e.frames_ = d.frames_
  /\ Flag(d, "SeenAllBoxes") /\ Flag(e, "SeenAllBoxes")
       => /\ Len(e.boxes_) = Len(d.boxes_)
          /\ \A i \in 1..Len(d.boxes_) : e.boxes_[i].type = d.boxes_[i].type
  /\ Flag(d, "SeenAllJpeg") /\ Flag(e, "SeenAllJpeg")
       => e.jpegCount_ = d.jpegCount_

Absent(events, flags, e, got) == got \in flags => ~HasBit(events, e)
\* Neither one-shot event that has been delivered is in the subscription
\* set the decoder holds, nor in the set that rewind r installed.
OneShotAbsentNow ==
  /\ Absent(dec.eventsSubbed_, dec.stateFlags_, JXL_DEC_BASIC_INFO,
            "GotBasicInfo")
  /\ Absent(dec.eventsSubbed_, dec.stateFlags_, JXL_DEC_COLOR_ENCODING,
            "GotColor")
BasicInfoAbsentIn(r) ==
  Absent(r.events, r.pre.flags, JXL_DEC_BASIC_INFO, "GotBasicInfo")
ColorAbsentIn(r) ==
  Absent(r.events, r.pre.flags, JXL_DEC_COLOR_ENCODING, "GotColor")
Rewinds == { dec.rewound[i] : i \in 1..Len(dec.rewound) }

Cursors(d) == <<d.nextFrameIndex_, d.nextBoxIndex_, d.nextJpegIndex_>>
\* No cursor of d is ahead of the same cursor of e.
NotAhead(d, e) == \A i \in 1..3 : Cursors(d)[i] <= Cursors(e)[i]

\* C32: a call on an open file that does not rewind leaves no cursor
\* (nextFrameIndex_, nextBoxIndex_, nextJpegIndex_) lower than it found it,
\* and every rewind leaves all three at 0.
C32_CursorsGrowBetweenRewinds ==
  [][last'.pre.open /\ SameFile =>
       /\ dec'.rewound = <<>> => NotAhead(dec, dec')
       /\ \A i \in 1..Len(dec'.rewound) :
            dec'.rewound[i].next = <<0, 0, 0>>]_vars

\* C32 happens: a call that found the frame cursor advanced has rewound and
\* then advanced all three cursors.
C32_Witness ==
  /\ last.pre.open /\ last.pre.next > 0 /\ dec.rewound # <<>>
  /\ \A i \in 1..3 : Cursors(dec)[i] > 0

\* C33: a rewind leaves what is cached as it found it: the frame records,
\* the box records, basic info, extra-channel info, the ICC and encoded
\* profiles of both targets, the JPEG count and the SeenAll and Got flags.
C33_RewindKeepsCaches ==
  Defined => \A r \in Rewinds : r.post = r.pre

\* C33 happens: a rewind found frame and box records, profiles and flags.
C33_Witness ==
  /\ last.pre.open
  /\ \E r \in Rewinds :
       /\ r.pre.frames_ # <<>> /\ r.pre.boxes_ # <<>>
       /\ r.pre.origIcc_ # <<>>
       /\ {"SeenAllFrames", "GotBasicInfo", "GotColor"} \subseteq r.pre.flags


\* ------------------------------------------------- termination properties
\* C34: every call on the decoder comes to an end, with a result or with an
\* exception: none repeats the same iteration of the event loop for ever,
\* whatever the file and whatever the stream does.
C34_EveryCallTerminates == Defined => dec.err # "Hang"

\* The stream of the decoder has been left failed by a seek it cannot do.
LeftFailedBySeek ==
  /\ dec.stream.has /\ ~dec.stream.seekable
  /\ dec.stream.fail /\ ~dec.stream.eof
\* The bookkeeping of the buffer says how far the stream has been read.
BufferAtStreamPosition ==
  dec.inBufferOffset_ + dec.inBufferLength_ = dec.stream.pos - dec.stream.pre
\* The count that the last call returned, if it returned one, is the file's.
CountIsTrue ==
  /\ last.op = "frameCount"
       => dec.ret.v = TrueFrameCount(SrcFile(dec), Flag(dec, "IsCoalescing"))
  /\ last.op = "boxCount" => dec.ret.v = TrueBoxCount(SrcFile(dec))

\* C35: once a rewind has failed because the stream cannot seek, the buffer
\* bookkeeping still says where the stream stands, and every call either
\* fails with an exception or returns what the file holds.
C35_FailedSeekLeavesBookkeepingTrue ==
  Defined /\ Flag(dec, "IsOpen") /\ LeftFailedBySeek
    => /\ BufferAtStreamPosition
       /\ dec.err \notin Gone
       /\ Ok(dec) => CountIsTrue

\* ------------------------------------------------- getFramePixels properties
\* What a getFramePixels call on frame 0 of the file of mode "pixels" is
\* rejected for before it decodes: an extra channel the image has not, a
\* buffer for an extra channel of less than 2 bytes, a format whose size
\* overflows, a main buffer of less than 6 bytes.
UnknownChannel(args) ==
  \E i \in 1..Len(args[5]) : args[5][i].channelIndex >= SrcFile(dec).nec
SmallChannelSink(args) ==
  \E i \in 1..Len(args[5]) :
    args[5][i].capacity < LayerXsize([id |-> 0]) * LayerYsize([id |-> 0])
SizeOverflow(args) ==
  args[3] /\ ~NoOverflow(4, args[2].num_channels)
SmallMainSink(args) ==
  args[3] /\ args[4] < 3 * LayerXsize([id |-> 0]) * LayerYsize([id |-> 0])
Rejected(args) ==
  \/ UnknownChannel(args)
  \/ SmallChannelSink(args)
  \/ SizeOverflow(args)
  \/ SmallMainSink(args)

\* C36: a getFramePixels call that is rejected before decoding (unknown
\* extra channel, a buffer for an extra channel or for the main channels
\* that is too small, a size that overflows) has no effect: it returns no
\* pixels, no buffer of the caller is registered with the codec when it
\* returns, and DecodedSomePixels is as it was before the call.
C36_RejectedPixelsCallHasNoEffect ==
  [][(/\ last'.op = "getFramePixelsInto"
      /\ last'.pre.open
      /\ Rejected(last'.args))
     => /\ ~Ok(dec')
        /\ ~dec'.dec_.imgOut
        /\ dec'.dec_.ecOut = {}
        /\ Flag(dec', "DecodedSomePixels") = Flag(dec, "DecodedSomePixels")]_vars

\* ------------------------------------------------------- copyBoxes properties
\* The headers of the boxes of a file that are not reserved, in file order.
NonReservedPos(f) ==
  SelectSeq(BoxPos(f),
            LAMBDA p : ~isReservedBoxType(TypeBytes(f.bytes[p].type)))
\* What the output file holds when every such box is copied with its type
\* and its decompressed payload.
TrueCopy(f, compress) ==
  [i \in 1..Len(NonReservedPos(f)) |->
     [type |-> TypeBytes(f.bytes[NonReservedPos(f)[i]].type),
      content |-> TrueBoxContent(f, NonReservedPos(f)[i], TRUE),
      compress |-> compress]]

\* C37: when merge copies the boxes of an input file, every box of the
\* input that is not reserved is in the output with its type and its
\* decompressed payload, whether the output boxes are stored compressed or
\* not and whether the box was stored compressed in the input or not.
C37_CopiedBoxesKeepTypeAndPayload ==
  last.op = "copyBoxes"
    => /\ Ok(dec)
       /\ dec.ret.v = TrueCopy(SrcFile(dec), last.args[1])

\* --------------------------------------------------- processInput_ properties
\* C38: processInput_ never returns JXL_DEC_NEED_MORE_INPUT to its caller,
\* whatever untilStatus and stop indices the caller passes (those of the
\* box output included): the buffer is refilled inside the loop.
C38_NeedMoreInputNeverReturned ==
  Defined => \A r \in dec.returned : r.status # JXL_DEC_NEED_MORE_INPUT

\* ------------------------------------------------------------ cache properties
\* The cached frame records are those of the first frames of the file, in
\* order, and the cached box records those of its first boxes.
FramesArePrefix(d) ==
  LET f == SrcFile(d)
      coalescing == Flag(d, "IsCoalescing")
  IN /\ Len(d.frames_) <= TrueFrameCount(f, coalescing)
     /\ \A k \in 1..Len(d.frames_) :
          d.frames_[k].header = TrueFrameInfo(f, coalescing, k - 1).header
BoxesArePrefix(d) ==
  LET f == SrcFile(d)
  IN /\ Len(d.boxes_) <= TrueBoxCount(f)
     /\ \A k \in 1..Len(d.boxes_) :
          /\ d.boxes_[k].type = f.bytes[BoxPos(f)[k]].type
          /\ d.boxes_[k].compressed = ("brob" \in f.bytes[BoxPos(f)[k]].at)
          /\ d.boxes_[k].unbounded = ("unb" \in f.bytes[BoxPos(f)[k]].at)

\* C39: while a file is open, the cached frame list and the cached box list
\* are prefixes, without gaps, of the file's frames and boxes, and neither
\* nextFrameIndex_ nor nextBoxIndex_ is larger than the number of records
\* cached: no frame is skipped whose record is not cached.
C39_CachesArePrefixes ==
  Flag(dec, "IsOpen")
    => /\ FramesArePrefix(dec)
       /\ BoxesArePrefix(dec)
       /\ dec.nextFrameIndex_ <= Len(dec.frames_)
       /\ dec.nextBoxIndex_ <= Len(dec.boxes_)
\* Frames and boxes are cached, the decoder has been rewound and has read
\* some of them again: it stands before frame records it has cached.
C39_Witness ==
  /\ Flag(dec, "IsOpen")
  /\ dec.rewound # <<>>
  /\ Len(dec.frames_) > 1
  /\ dec.nextFrameIndex_ > 0 /\ dec.nextFrameIndex_ < Len(dec.frames_)
  /\ Len(dec.boxes_) > 1 /\ dec.nextBoxIndex_ > 0

\* ----------------------------------------------------- input buffer properties
\* The sizes of the input buffer are in order.
BufferSizesOrdered(d) ==
  /\ d.inBufferDecOffset_ <= d.inBufferLength_
  /\ d.inBufferLength_ <= d.inBufferCap_
  /\ d.inBufferCap_ <= d.inBufferMax_
\* The buffer holds the blocks of the source from inBufferOffset_ on,
\* counted from where the file starts in the source.
BufferHoldsSource(d) ==
  Window(d, 0, d.inBufferLength_)
    = [k \in 1..d.inBufferLength_ |-> d.inBufferOffset_ + k]
\* inBufferOffset_ + inBufferLength_ is what has been read of the stream
\* since it stood where the file starts.
BufferCountsRead(d) ==
  d.stream.has
    => d.inBufferOffset_ + d.inBufferLength_ = d.stream.pos - d.stream.pre

\* C40: while a file is open, inBufferDecOffset_ <= inBufferLength_ <=
\* inBufferCap_ <= inBufferMax_, and inBufferOffset_ is where the first
\* block of the buffer lies in the source, counted from the rewind anchor,
\* so that inBufferOffset_ + inBufferLength_ blocks of the source have been
\* read in the current pass.
C40_InputBufferInvariant ==
  Flag(dec, "IsOpen")
    => /\ BufferSizesOrdered(dec)
       /\ BufferHoldsSource(dec)
       /\ BufferCountsRead(dec)

====
